---- MODULE Spec2Model ----
(***************************************************************************)
(* Rating aggregation and persistence of ai_risk_manager.                  *)
(*                                                                         *)
(*   generateReport (risk_assesment_output.py) reads the engine's JSON     *)
(*   artifact, extracts the consolidating agent's verdicts, flattens them  *)
(*   to rows, keeps one row per (project_id, project_name, optic_name),    *)
(*   writes the workbook and hands one batch per project_id to             *)
(*   process_data_to_database (risk_summary_db_ingestion.py), which calls  *)
(*   RiskAssessmentDB.bulk_insert_risk_assessments (database_handler.py).  *)
(*                                                                         *)
(* JSON values are modelled as records.  A key that is absent from a JSON  *)
(* object is MISSING, a key holding JSON null is NULL.  An agent name is a *)
(* sequence of tokens (words and single whitespace characters), so that    *)
(* str.strip() is computed and not assumed.                                *)
(***************************************************************************)
EXTENDS Integers, Sequences, FiniteSets, TLC

VARIABLES
    data,               \* json.load(f): the list of execution records
    pc,                 \* position of generateReport
    error,              \* the exception that ended generateReport, "" if none
    results,            \* results            (line 13)
    all_rows,           \* all_rows           (line 42)
    df,                 \* df                 (lines 59-64)
    df_last_records,    \* df_last_records    (line 67)
    workbook,           \* the rows of the .xlsx artifact (line 81)
    projects_data,      \* projects_data.items() still to be stored (lines 89-96)
    stored,             \* the calls of process_data_to_database so far (line 97)
    report_run,         \* the generateReport run in progress: its number and how the one before ended
    risk_assessments,   \* the committed rows of table risk_assessments
    next_id,            \* the SERIAL sequence behind risk_assessments.id
    clock,              \* CURRENT_TIMESTAMP, a logical clock
    conn,               \* the open connection: its transaction, or closed
    calls,              \* log of the finished store calls, oldest first
    faults,             \* database faults injected so far
    latest,             \* the answer of the last latest-ratings read
    project_data,       \* the committed rows of table project_data
    file_hashes,        \* ExcelFileHandler.file_hashes: the content last seen, if any;
                        \* with several paths, the pairs of a path and its hash
    processing_lock,    \* ExcelFileHandler.processing_lock: the worker holding it, or 0
    workers,            \* the threads of process_file_sync and where each one is
    files,              \* the content of each watched file
    accepted,           \* the content last accepted for processing on each path
    runs,               \* the last two finished status ingestions, older first
    text                \* the last call of a normalizer or consolidator

vars == <<data, pc, error, results, all_rows, df, df_last_records, workbook,
          projects_data, stored, report_run,
          risk_assessments, next_id, clock, conn, calls, faults,
          latest, project_data, file_hashes, runs, text,
          processing_lock, workers, files, accepted>>

\* the state of the file watcher's threads
watchVars == <<processing_lock, workers, files, accepted>>

reportVars == <<data, pc, error, results, all_rows, df, df_last_records,
                workbook, projects_data, stored, report_run>>

storeVars == <<risk_assessments, next_id, clock, conn, calls, faults>>

\* the variables outside generateReport and the write side of the store
sideVars == <<latest, project_data, file_hashes, runs, text, watchVars>>

statusVars == <<project_data, file_hashes, runs, watchVars>>

-----------------------------------------------------------------------------
(* Bounds of the model *)

\* execution records in one artifact
MaxRecords == 2

\* rows handed to the store's API in one run of SpecStore, all calls together
MaxRows == 3

\* database faults (a lost connection, a server error) in one run
MaxFaults == 1

\* status ingestions (files handled, files watched, API requests) in one run,
\* and generateReport runs on one artifact
MaxRuns == 2

-----------------------------------------------------------------------------
(* JSON values *)

NULL == "<null>"

MISSING == "<missing>"

\* dict.get(key): None when the key is absent
Get(v) == IF v = MISSING THEN NULL ELSE v

\* pandas' isna() on an object cell
IsNull(v) == v = NULL

Whitespace == {" ", "\t", "\n"}

RECURSIVE LStrip(_)
LStrip(s) ==
    IF s # <<>> /\ Head(s) \in Whitespace THEN LStrip(Tail(s)) ELSE s

RECURSIVE RStrip(_)
RStrip(s) ==
    IF s # <<>> /\ s[Len(s)] \in Whitespace
    THEN RStrip(SubSeq(s, 1, Len(s) - 1))
    ELSE s

\* str.strip() left out
StripNothing(s) == s

\* str.strip()
Strip(s) == RStrip(LStrip(s))

\* the literal "Chief Risk Assessment Officer"
ConsolidatingRole == <<"Chief", " ", "Risk", " ", "Assessment", " ", "Officer">>

-----------------------------------------------------------------------------
(* The inputs: the execution records the engine can have written *)

Optic(name, rating, justification, recommendation) ==
    [optic_name |-> name, rating |-> rating,
     justification |-> justification, recommendation |-> recommendation]

Payload(pid, pname, date, okind, optics) ==
    [kind |-> "dict", project_id |-> pid, project_name |-> pname,
     rating_date |-> date, optic_ratings |-> [kind |-> okind, items |-> optics]]

\* json_dict absent ("missing") or null ("null")
NoPayload(kind) ==
    [Payload(MISSING, MISSING, MISSING, "missing", <<>>) EXCEPT !.kind = kind]

Agent(s) == [kind |-> "str", str |-> s]

Entry(agent, json_dict) == [agent |-> agent, json_dict |-> json_dict]

\* an execution record: a dict with a tasks_output list
Record(entries) ==
    [kind |-> "dict", tasks_output |-> [kind |-> "list", items |-> entries]]

\* a well-formed record: one consolidating entry with one optic rating
RowRecord(pid, pname, date, rating, justification) ==
    Record(<<Entry(Agent(ConsolidatingRole),
                   Payload(pid, pname, date, "list",
                           <<Optic("Schedule", rating, justification, "r1")>>))>>)

\* Well-formed records whose rows differ in key, date, rating and justification:
\* two dated verdicts of one project, null and unparsable dates, a null rating,
\* a null justification, keys with a null project_id or project_name, two
\* names under one project_id, and a rating outside Red/Amber/Green.
RowRecords ==
    { RowRecord("P1", "Alpha", d, rj[1], rj[2]) :
        d \in {"2024-01-01", "2024-02-01"},
        rj \in {<<"Red", "j1">>, <<"Green", "j2">>, <<"Green", NULL>>, <<NULL, "j1">>} }
    \cup { RowRecord("P1", "Alpha", d, "Red", "j1") : d \in {NULL, "not-a-date"} }
    \cup { RowRecord("P2", "Beta", d, "Red", "j1") : d \in {"2024-01-01", "2024-02-01"} }
    \cup { RowRecord("P2", "Beta", "2024-01-01", "Purple", "j1"),
           RowRecord("P1", "Beta", "2024-01-01", "Green", "j2"),
           RowRecord(NULL, "Alpha", "2024-01-01", "Red", "j1"),
           RowRecord("P1", NULL, "2024-01-01", "Red", "j1") }

GoodOptics == <<Optic("Schedule", "Red", "j1", "r1")>>

GoodPayload == Payload("P1", "Alpha", "2024-01-01", "list", GoodOptics)

OtherPayload == Payload("P2", "Beta", "2024-01-01", "list", GoodOptics)

SpecialistRole == <<"Schedule", " ", "Risk", " ", "Analyst">>

\* Entries of every shape the artifact can hold: the consolidating role as
\* written, padded with whitespace, differing inside the name; a specialist;
\* an absent or null agent; an absent or null json_dict; payloads and optic
\* ratings with keys absent or null.
ShapeEntries ==
    { Entry(Agent(ConsolidatingRole), GoodPayload),
      Entry(Agent(<<" ">> \o ConsolidatingRole), OtherPayload),
      Entry(Agent(ConsolidatingRole \o <<"\n">>), OtherPayload),
      Entry(Agent(<<"chief", " ", "Risk", " ", "Assessment", " ", "Officer">>), OtherPayload),
      Entry(Agent(SpecialistRole), OtherPayload),
      Entry(Agent(SpecialistRole), NoPayload("null")),
      Entry([kind |-> "missing", str |-> <<>>], OtherPayload),
      Entry([kind |-> "null", str |-> <<>>], OtherPayload),
      Entry(Agent(ConsolidatingRole), NoPayload("missing")),
      Entry(Agent(ConsolidatingRole), NoPayload("null")),
      Entry(Agent(ConsolidatingRole), Payload(MISSING, MISSING, MISSING, "list", GoodOptics)),
      Entry(Agent(ConsolidatingRole), Payload("P2", "Beta", "2024-01-01", "null", <<>>)),
      Entry(Agent(ConsolidatingRole),
            Payload("P2", "Beta", "2024-01-01", "list",
                    <<Optic("Schedule", MISSING, "j1", "r1")>>)),
      Entry(Agent(ConsolidatingRole),
            Payload("P2", "Beta", "2024-01-01", "list",
                    <<Optic("Schedule", "Green", "j2", "r1"),
                      Optic("Budget", "Red", NULL, NULL)>>)) }

\* str(result): a record that main() serialized as a plain string
StringRecord == [kind |-> "str", tasks_output |-> [kind |-> "missing", items |-> <<>>]]

\* a dict without tasks_output
BareRecord == [kind |-> "dict", tasks_output |-> [kind |-> "missing", items |-> <<>>]]

ShapeRecords ==
    {StringRecord, BareRecord, Record(<<>>)}
    \cup { Record(<<e>>) : e \in ShapeEntries }
    \cup { Record(<<Entry(Agent(SpecialistRole), OtherPayload), e>>) :
             e \in {Entry(Agent(ConsolidatingRole), GoodPayload)} }

SeqsUpTo(S, n) == UNION { [1..k -> S] : k \in 0..n }

\* the artifacts generateReport is run on
Batches == SeqsUpTo(RowRecords, MaxRecords) \cup SeqsUpTo(ShapeRecords, MaxRecords)

-----------------------------------------------------------------------------
(* generateReport, lines 15-36: extraction *)

Ok(v) == [error |-> "", value |-> v]

Raise(e) == [error |-> e, value |-> <<>>]

\* lines 19-36, one item of tasks_output: item.get("agent", "").strip() raises
\* on a null agent, json_dict.get raises on a null json_dict; an absent
\* json_dict is {} and every absent key reads as None, optic_ratings as [].
ExtractEntry(item) ==
    IF item.agent.kind = "null" THEN Raise("AttributeError")
    ELSE LET agent == Strip(IF item.agent.kind = "missing" THEN <<>> ELSE item.agent.str)
         IN  IF agent # ConsolidatingRole THEN Ok(<<>>)
             ELSE IF item.json_dict.kind = "null" THEN Raise("AttributeError")
             ELSE LET jd == item.json_dict
                  IN  Ok(<<[agent |-> agent,
                            project_id |-> Get(jd.project_id),
                            project_name |-> Get(jd.project_name),
                            rating_date |-> Get(jd.rating_date),
                            optic_ratings |->
                                IF jd.optic_ratings.kind = "missing"
                                THEN [kind |-> "list", items |-> <<>>]
                                ELSE jd.optic_ratings]>>)

\* lines 18-36: the loop over tasks_output, ended by the first exception
RECURSIVE ExtractItems(_)
ExtractItems(items) ==
    IF items = <<>> THEN Ok(<<>>)
    ELSE LET h == ExtractEntry(Head(items))
         IN  IF h.error # "" THEN h
             ELSE LET t == ExtractItems(Tail(items))
                  IN  IF t.error # "" THEN t ELSE Ok(h.value \o t.value)

\* lines 15-36: the loop over data; task_item.get raises on a plain string,
\* an absent tasks_output is []
RECURSIVE ExtractResults(_)
ExtractResults(d) ==
    IF d = <<>> THEN Ok(<<>>)
    ELSE LET h == IF Head(d).kind = "str" THEN Raise("AttributeError")
                  ELSE ExtractItems(Head(d).tasks_output.items)
         IN  IF h.error # "" THEN h
             ELSE LET t == ExtractResults(Tail(d))
                  IN  IF t.error # "" THEN t ELSE Ok(h.value \o t.value)

-----------------------------------------------------------------------------
(* generateReport, lines 42-55: flattening *)

\* lines 47-55: optic["k"] raises KeyError on an absent key
FlattenOptic(res, optic) ==
    IF MISSING \in {optic.optic_name, optic.rating, optic.justification,
                    optic.recommendation}
    THEN Raise("KeyError")
    ELSE Ok(<<[project_id |-> res.project_id,
               project_name |-> res.project_name,
               rating_date |-> res.rating_date,
               optic_name |-> optic.optic_name,
               rating |-> optic.rating,
               justification |-> optic.justification,
               recommendation |-> optic.recommendation]>>)

RECURSIVE FlattenOptics(_, _)
FlattenOptics(res, optics) ==
    IF optics = <<>> THEN Ok(<<>>)
    ELSE LET h == FlattenOptic(res, Head(optics))
         IN  IF h.error # "" THEN h
             ELSE LET t == FlattenOptics(res, Tail(optics))
                  IN  IF t.error # "" THEN t ELSE Ok(h.value \o t.value)

\* lines 43-55: iterating a null optic_ratings raises TypeError
RECURSIVE FlattenResults(_)
FlattenResults(rs) ==
    IF rs = <<>> THEN Ok(<<>>)
    ELSE LET h == IF Head(rs).optic_ratings.kind = "null" THEN Raise("TypeError")
                  ELSE FlattenOptics(Head(rs), Head(rs).optic_ratings.items)
         IN  IF h.error # "" THEN h
             ELSE LET t == FlattenResults(Tail(rs))
                  IN  IF t.error # "" THEN t ELSE Ok(h.value \o t.value)

-----------------------------------------------------------------------------
(* generateReport, lines 63-67: the dedupe *)

\* pandas' NaT, the null of a datetime column
NaT == -1

\* the dates pd.to_datetime parses, as day numbers that keep their order
DateTable == ("2024-01-01" :> 20240101) @@ ("2024-02-01" :> 20240201)

\* line 63, pd.to_datetime(df['rating_date']) with errors='raise' (the
\* default): None becomes NaT, a string that is no date raises
ToDatetime(rows) ==
    IF \E i \in 1..Len(rows) :
           ~IsNull(rows[i].rating_date) /\ rows[i].rating_date \notin DOMAIN DateTable
    THEN Raise("ValueError")
    ELSE Ok([i \in 1..Len(rows) |->
               [rows[i] EXCEPT !.rating_date =
                   IF IsNull(@) THEN NaT ELSE DateTable[@]]])

Perms(n) == {p \in [1..n -> 1..n] : \A i, j \in 1..n : i # j => p[i] # p[j]}

\* line 64, df.sort_values('rating_date'): kind='quicksort', na_position='last'
\* (the defaults).  Rows with dates come first in ascending order; quicksort
\* is not stable, so rows of equal date come in any order.  The NaT rows are
\* appended after the sort, in their input order.
SortValues(rows) ==
    LET n == Len(rows)
        ok(p) == \A i, j \in 1..n : i < j =>
                    LET a == rows[p[i]].rating_date
                        b == rows[p[j]].rating_date
                    IN  /\ a = NaT => (b = NaT /\ p[i] < p[j])
                        /\ (a # NaT /\ b # NaT) => a <= b
    IN  { [i \in 1..n |-> rows[p[i]]] : p \in {q \in Perms(n) : ok(q)} }

KeyOf(r) == <<r.project_id, r.project_name, r.optic_name>>

\* Python's order of the strings that occur as group keys
StrRank ==
    ("Alpha" :> 1) @@ ("Beta" :> 2) @@ ("Budget" :> 3) @@ ("P1" :> 4)
    @@ ("P2" :> 5) @@ ("Schedule" :> 6)

KeyLess(a, b) ==
    \/ StrRank[a[1]] < StrRank[b[1]]
    \/ a[1] = b[1] /\ StrRank[a[2]] < StrRank[b[2]]
    \/ a[1] = b[1] /\ a[2] = b[2] /\ StrRank[a[3]] < StrRank[b[3]]

RECURSIVE SortKeys(_)
SortKeys(K) ==
    IF K = {} THEN <<>>
    ELSE LET m == CHOOSE k \in K : \A o \in K \ {k} : KeyLess(k, o)
         IN  <<m>> \o SortKeys(K \ {m})

\* groupby(..., dropna=True), the default: a row with a null key is in no group
GroupKeys(rows) ==
    { KeyOf(rows[i]) : i \in {j \in 1..Len(rows) :
          \A c \in 1..3 : ~IsNull(KeyOf(rows[j])[c])} }

\* GroupBy.last() of one column: the last value of the group that is not null,
\* null when there is none
LastValid(vals, null) ==
    LET I == {i \in 1..Len(vals) : vals[i] # null}
    IN  IF I = {} THEN null
        ELSE vals[CHOOSE i \in I : \A j \in I : j <= i]

Column(rows, c) == [i \in 1..Len(rows) |-> rows[i][c]]

\* the row of one group: the key and, column by column, the last valid value
LastOfGroup(rows, k) ==
    LET g == SelectSeq(rows, LAMBDA r : KeyOf(r) = k)
    IN  [project_id |-> k[1], project_name |-> k[2], optic_name |-> k[3],
         rating_date |-> LastValid(Column(g, "rating_date"), NaT),
         rating |-> LastValid(Column(g, "rating"), NULL),
         justification |-> LastValid(Column(g, "justification"), NULL),
         recommendation |-> LastValid(Column(g, "recommendation"), NULL)]

\* a dedupe that keeps every row
GroupLastKeepAll(rows) == rows

\* line 67, df.groupby([...]).last().reset_index(): one row per group, the
\* groups in ascending key order (sort=True, the default)
GroupLast(rows) ==
    LET keys == SortKeys(GroupKeys(rows))
    IN  [i \in 1..Len(keys) |-> LastOfGroup(rows, keys[i])]

-----------------------------------------------------------------------------
(* generateReport, lines 72-98: the export *)

Columns == <<"project_id", "project_name", "optic_name", "rating_date",
             "rating", "justification", "recommendation">>

NoWorkbook == [header |-> <<>>, rows |-> <<>>]

\* line 81, DataFrame.to_excel(output_file, index=False): a fresh file
ToExcel(old, rows) == [header |-> Columns, rows |-> rows]

\* lines 89-94: projects_data, a dict in insertion order
\* a batch for every row
GroupPerRow(rows) ==
    [i \in 1..Len(rows) |-> [project_id |-> rows[i].project_id, rows |-> <<rows[i]>>]]

RECURSIVE GroupByProject(_)
GroupByProject(rows) ==
    IF rows = <<>> THEN <<>>
    ELSE LET pid == Head(rows).project_id
         IN  <<[project_id |-> pid,
                rows |-> SelectSeq(rows, LAMBDA r : r.project_id = pid)]>>
             \o GroupByProject(SelectSeq(rows, LAMBDA r : r.project_id # pid))

-----------------------------------------------------------------------------
(* RiskAssessmentDB: table risk_assessments and its upsert *)

Ratings == {"Red", "Amber", "Green"}

StoreKey(r) == <<r.project_id, r.rating_date, r.optic_name>>

\* the table without the CHECK on rating
StatementOkAnyRating(row) ==
    /\ ~IsNull(row.project_id)
    /\ ~IsNull(row.project_name)
    /\ row.rating_date # NaT
    /\ ~IsNull(row.optic_name)
    /\ ~IsNull(row.rating)

\* the table's NOT NULL and CHECK constraints (lines 46-57); a NaT is no date
StatementOk(row) ==
    /\ ~IsNull(row.project_id)
    /\ ~IsNull(row.project_name)
    /\ row.rating_date # NaT
    /\ ~IsNull(row.optic_name)
    /\ row.rating \in Ratings

\* the INSERT of insert_sql: a new row, id from the sequence, created_at and
\* updated_at from their DEFAULT CURRENT_TIMESTAMP
InsertRow(table, row, id, now) ==
    table \cup {[id |-> id, project_id |-> row.project_id,
                 project_name |-> row.project_name,
                 rating_date |-> row.rating_date,
                 optic_name |-> row.optic_name, rating |-> row.rating,
                 justification |-> row.justification,
                 created_at |-> now, updated_at |-> now]}

\* the row of the key is deleted and the incoming row inserted in its place
UpsertReplace(table, row, id, now) ==
    InsertRow({r \in table : StoreKey(r) # StoreKey(row)}, row, id, now)

\* INSERT without ON CONFLICT, on a table without the unique constraint
UpsertAppend(table, row, id, now) == InsertRow(table, row, id, now)

\* ON CONFLICT ... DO NOTHING
UpsertKeepOld(table, row, id, now) ==
    IF \E r \in table : StoreKey(r) = StoreKey(row) THEN table
    ELSE InsertRow(table, row, id, now)

\* insert_sql (lines 77-86 and 112-121): INSERT ... ON CONFLICT (project_id,
\* rating_date, optic_name) DO UPDATE SET rating, justification, updated_at
Upsert(table, row, id, now) ==
    IF \E r \in table : StoreKey(r) = StoreKey(row)
    THEN { IF StoreKey(r) = StoreKey(row)
           THEN [r EXCEPT !.rating = row.rating,
                          !.justification = row.justification,
                          !.updated_at = now]
           ELSE r : r \in table }
    ELSE InsertRow(table, row, id, now)

\* no read has been made
NoRead == [op |-> "none", project_id |-> "", rating_date |-> NaT, status |-> 0,
           rows |-> <<>>, table |-> {}]

\* no normalizer or consolidator has been called
NoText == [op |-> "none"]

\* no thread of process_file_sync has been started
NoWorkers == <<>>

\* no file is watched
NoFiles == <<>>

\* no generateReport run
NoRun == [n |-> 0, last |-> "none", calls |-> 0]

\* the first generateReport run on an artifact
FirstRun == [n |-> 1, last |-> "none", calls |-> 0]

Closed == [state |-> "closed", batch |-> <<>>, i |-> 0, before |-> {}, work |-> {}]

Call(op, batch, ret, before, after) ==
    [op |-> op, batch |-> batch, ret |-> ret, before |-> before, after |-> after]

\* lines 123-133: psycopg2 opens the transaction of the batch
BeginBulk(batch) ==
    /\ conn.state = "closed"
    /\ conn' = [state |-> "txn", batch |-> batch, i |-> 1,
                before |-> risk_assessments, work |-> risk_assessments]
    /\ clock' = clock + 1
    /\ UNCHANGED <<risk_assessments, next_id, calls, faults>>

\* the transaction's statements become visible as each one is executed
BulkExecuteAutocommit ==
    /\ conn.state = "txn"
    /\ conn.i <= Len(conn.batch)
    /\ LET row == conn.batch[conn.i]
       IN  IF StatementOk(row)
           THEN /\ conn' = [conn EXCEPT !.i = @ + 1,
                                        !.work = Upsert(@, row, next_id, clock)]
                /\ risk_assessments' = Upsert(conn.work, row, next_id, clock)
                /\ next_id' = next_id + 1
                /\ UNCHANGED faults
           ELSE /\ conn' = [conn EXCEPT !.state = "failed"]
                /\ UNCHANGED <<risk_assessments, next_id, faults>>
    /\ UNCHANGED <<clock, calls>>

\* line 135, execute_batch: one statement of the batch, inside the
\* transaction; a constraint violation or a database fault raises
BulkExecute ==
    /\ conn.state = "txn"
    /\ conn.i <= Len(conn.batch)
    /\ LET row == conn.batch[conn.i]
       IN  \E fault \in BOOLEAN :
             /\ fault => faults < MaxFaults
             /\ IF ~fault /\ StatementOk(row)
                THEN /\ conn' = [conn EXCEPT !.i = @ + 1,
                                             !.work = Upsert(@, row, next_id, clock)]
                     /\ next_id' = next_id + 1
                     /\ UNCHANGED faults
                ELSE /\ conn' = [conn EXCEPT !.state = "failed"]
                     /\ faults' = IF fault THEN faults + 1 ELSE faults
                     /\ UNCHANGED next_id
    /\ UNCHANGED <<risk_assessments, clock, calls>>

\* lines 136-139: commit and return True; a commit that raises is handled
\* like a failed statement
BulkCommit ==
    /\ conn.state = "txn"
    /\ conn.i > Len(conn.batch)
    /\ \E fault \in BOOLEAN :
         /\ fault => faults < MaxFaults
         /\ IF fault
            THEN /\ conn' = [conn EXCEPT !.state = "failed"]
                 /\ faults' = faults + 1
                 /\ UNCHANGED <<risk_assessments, calls>>
            ELSE /\ risk_assessments' = conn.work
                 /\ calls' = Append(calls, Call("bulk", conn.batch, TRUE,
                                                conn.before, conn.work))
                 /\ conn' = Closed
                 /\ UNCHANGED faults
    /\ UNCHANGED <<next_id, clock>>

\* lines 140-144: rollback and return False
BulkRollback ==
    /\ conn.state = "failed"
    /\ calls' = Append(calls, Call("bulk", conn.batch, FALSE,
                                   conn.before, risk_assessments))
    /\ conn' = Closed
    /\ UNCHANGED <<risk_assessments, next_id, clock, faults>>

\* insert_risk_assessment (lines 70-103): one statement, committed at once
\* (True) or rolled back (False)
InsertRiskAssessment(row) ==
    /\ conn.state = "closed"
    /\ \E fault \in BOOLEAN :
         /\ fault => faults < MaxFaults
         /\ IF ~fault /\ StatementOk(row)
            THEN /\ risk_assessments' = Upsert(risk_assessments, row, next_id, clock + 1)
                 /\ next_id' = next_id + 1
                 /\ calls' = Append(calls, Call("insert", <<row>>, TRUE, risk_assessments,
                                                Upsert(risk_assessments, row, next_id, clock + 1)))
                 /\ UNCHANGED faults
            ELSE /\ calls' = Append(calls, Call("insert", <<row>>, FALSE,
                                                risk_assessments, risk_assessments))
                 /\ faults' = IF fault THEN faults + 1 ELSE faults
                 /\ UNCHANGED <<risk_assessments, next_id>>
    /\ clock' = clock + 1
    /\ UNCHANGED conn

-----------------------------------------------------------------------------
(* generateReport, step by step *)

\* lines 15-36
Extract ==
    /\ pc = "extract"
    /\ LET r == ExtractResults(data)
       IN  IF r.error # ""
           THEN pc' = "raised" /\ error' = r.error /\ UNCHANGED results
           ELSE pc' = "flatten" /\ results' = r.value /\ UNCHANGED error
    /\ UNCHANGED <<data, report_run, all_rows, df, df_last_records, workbook, projects_data>>
    /\ UNCHANGED storeVars

\* lines 42-58 and 99-100: without rows there is nothing to process
Flatten ==
    /\ pc = "flatten"
    /\ LET r == FlattenResults(results)
       IN  IF r.error # ""
           THEN pc' = "raised" /\ error' = r.error /\ UNCHANGED all_rows
           ELSE /\ all_rows' = r.value
                /\ pc' = IF r.value = <<>> THEN "done" ELSE "to_datetime"
                /\ UNCHANGED error
    /\ UNCHANGED <<data, report_run, results, df, df_last_records, workbook, projects_data>>
    /\ UNCHANGED storeVars

\* lines 59-63
ParseDates ==
    /\ pc = "to_datetime"
    /\ LET r == ToDatetime(all_rows)
       IN  IF r.error # ""
           THEN pc' = "raised" /\ error' = r.error /\ UNCHANGED df
           ELSE pc' = "sort" /\ df' = r.value /\ UNCHANGED error
    /\ UNCHANGED <<data, report_run, results, all_rows, df_last_records, workbook, projects_data>>
    /\ UNCHANGED storeVars

\* line 64
Sort ==
    /\ pc = "sort"
    /\ df' \in SortValues(df)
    /\ pc' = "group"
    /\ UNCHANGED <<data, report_run, error, results, all_rows, df_last_records, workbook,
                   projects_data>>
    /\ UNCHANGED storeVars

\* line 67
Group ==
    /\ pc = "group"
    /\ df_last_records' = GroupLast(df)
    /\ pc' = "export"
    /\ UNCHANGED <<data, report_run, error, results, all_rows, df, workbook, projects_data>>
    /\ UNCHANGED storeVars

\* lines 72-94: the workbook, then the rows grouped by project_id
Export ==
    /\ pc = "export"
    /\ workbook' = ToExcel(workbook, df_last_records)
    /\ projects_data' = GroupByProject(df_last_records)
    /\ pc' = "store"
    /\ UNCHANGED <<data, report_run, error, results, all_rows, df, df_last_records>>
    /\ UNCHANGED storeVars

\* process_data_to_database(project_id, data), risk_summary_db_ingestion.py
\* line 14: the arguments of one call
ProcessDataToDatabase(project_id, rows) == [project_id |-> project_id, data |-> rows]

\* lines 96-97 with a loop that a failed batch ends
StoreProjectUntilFailure ==
    /\ pc = "store"
    /\ projects_data # <<>>
    /\ conn.state = "closed"
    /\ IF calls # <<>> /\ ~calls[Len(calls)].ret
       THEN /\ pc' = "raised"
            /\ error' = "OperationalError"
            /\ UNCHANGED <<projects_data, stored, risk_assessments, next_id, clock,
                           conn, calls, faults>>
       ELSE /\ BeginBulk(Head(projects_data).rows)
            /\ projects_data' = Tail(projects_data)
            /\ stored' = Append(stored,
                                ProcessDataToDatabase(Head(projects_data).project_id,
                                                      Head(projects_data).rows))
            /\ UNCHANGED <<pc, error>>
    /\ UNCHANGED <<data, report_run, results, all_rows, df, df_last_records, workbook>>

\* lines 96-97 with process_data_to_database, lines 18-26: a connection is
\* opened for the project and its rows go to bulk_insert_risk_assessments.
\* RiskAssessmentDB(DB_CONFIG) is outside the try: a failed connect raises
\* out of generateReport.
StoreProject ==
    /\ pc = "store"
    /\ projects_data # <<>>
    /\ conn.state = "closed"
    /\ \E fault \in BOOLEAN :
         /\ fault => faults < MaxFaults
         /\ IF fault
            THEN /\ pc' = "raised"
                 /\ error' = "OperationalError"
                 /\ faults' = faults + 1
                 /\ UNCHANGED <<projects_data, risk_assessments, next_id, clock,
                                conn, calls>>
            ELSE /\ BeginBulk(Head(projects_data).rows)
                 /\ projects_data' = Tail(projects_data)
                 /\ UNCHANGED <<pc, error>>
    /\ stored' = Append(stored, ProcessDataToDatabase(Head(projects_data).project_id,
                                                      Head(projects_data).rows))
    /\ UNCHANGED <<data, report_run, results, all_rows, df, df_last_records, workbook>>

\* the loop of line 96 has run out
Finish ==
    /\ pc = "store"
    /\ projects_data = <<>>
    /\ conn.state = "closed"
    /\ pc' = "done"
    /\ UNCHANGED <<data, report_run, error, results, all_rows, df, df_last_records, workbook,
                   projects_data>>
    /\ UNCHANGED storeVars

Init ==
    /\ data \in Batches
    /\ pc = "extract"
    /\ error = ""
    /\ results = <<>>
    /\ all_rows = <<>>
    /\ df = <<>>
    /\ df_last_records = <<>>
    /\ workbook = NoWorkbook
    /\ projects_data = <<>>
    /\ stored = <<>>
    /\ report_run = FirstRun
    /\ risk_assessments = {}
    /\ next_id = 1
    /\ clock = 0
    /\ conn = Closed
    /\ calls = <<>>
    /\ faults = 0
    /\ latest = NoRead
    /\ project_data = {}
    /\ file_hashes = {}
    /\ runs = <<>>
    /\ text = NoText
    /\ processing_lock = 0
    /\ workers = NoWorkers
    /\ files = NoFiles
    /\ accepted = {}

Next ==
    \/ Extract /\ UNCHANGED <<sideVars, stored>>
    \/ Flatten /\ UNCHANGED <<sideVars, stored>>
    \/ ParseDates /\ UNCHANGED <<sideVars, stored>>
    \/ Sort /\ UNCHANGED <<sideVars, stored>>
    \/ Group /\ UNCHANGED <<sideVars, stored>>
    \/ Export /\ UNCHANGED <<sideVars, stored>>
    \/ StoreProject /\ UNCHANGED sideVars
    \/ Finish /\ UNCHANGED <<sideVars, stored>>
    \/ BulkExecute /\ UNCHANGED <<reportVars, sideVars>>
    \/ BulkCommit /\ UNCHANGED <<reportVars, sideVars>>
    \/ BulkRollback /\ UNCHANGED <<reportVars, sideVars>>

Spec == Init /\ [][Next]_vars

-----------------------------------------------------------------------------
(* Properties of generateReport *)

\* extraction has completed
ExtractDone == pc \notin {"extract"} /\ error # "AttributeError"

\* line 64 has run
SortDone ==
    \/ (pc \in {"group", "export", "store", "done"} /\ all_rows # <<>>)
    \/ (pc = "raised" /\ error = "OperationalError")

\* line 67 has run
GroupDone ==
    \/ (pc \in {"export", "store", "done"} /\ all_rows # <<>>)
    \/ (pc = "raised" /\ error = "OperationalError")

Indices(sq) == 1..Len(sq)

Max(S) == CHOOSE x \in S : \A y \in S : y <= x

\* the date of a flattened row as a day number, NaT when it is null
DayOf(r) == IF r.rating_date \in DOMAIN DateTable THEN DateTable[r.rating_date] ELSE NaT

\* the flattened rows of one group, in input order
InputGroup(k) == SelectSeq(all_rows, LAMBDA r : KeyOf(r) = k)

\* the latest date among the rows of a group, NaT when no row has a date
MaxDay(k) == Max({DayOf(InputGroup(k)[i]) : i \in Indices(InputGroup(k))} \cup {NaT})

NoTwoWithKey(rows) ==
    \A i, j \in Indices(rows) : KeyOf(rows[i]) = KeyOf(rows[j]) => i = j

RECURSIVE Concat(_)
Concat(ss) == IF ss = <<>> THEN <<>> ELSE Head(ss) \o Concat(Tail(ss))

\* every row handed to the Rating Store so far, or about to be
HandedToStore ==
    Concat([i \in Indices(calls) |-> calls[i].batch]) \o conn.batch
    \o Concat([i \in Indices(projects_data) |-> projects_data[i].rows])

\* C1: most recent wins.  Every row of the dedupe output carries the latest
\* rating_date found among the input rows of its group, and its rating is the
\* rating of an input row of the group that has that date.
C1_MostRecentWins ==
    GroupDone =>
        \A j \in Indices(df_last_records) :
            LET o == df_last_records[j]
                g == InputGroup(KeyOf(o))
            IN  /\ o.rating_date = MaxDay(KeyOf(o))
                /\ \E i \in Indices(g) :
                      DayOf(g[i]) = MaxDay(KeyOf(o)) /\ g[i].rating = o.rating

\* C2: the deduped rows, in the data frame, in the workbook and in the
\* batches of the Rating Store, hold at most one row per
\* (project_id, project_name, optic_name).
C2_OneRowPerKey ==
    /\ NoTwoWithKey(df_last_records)
    /\ NoTwoWithKey(workbook.rows)
    /\ NoTwoWithKey(HandedToStore)

\* C2 witness: a batch with two rows of one group was deduped, exported and
\* stored.
C2_Witness ==
    /\ pc = "done"
    /\ \E i, j \in Indices(all_rows) : i < j /\ KeyOf(all_rows[i]) = KeyOf(all_rows[j])
    /\ Len(df_last_records) = 1
    /\ Len(workbook.rows) = 1
    /\ Len(calls) = 1 /\ calls[1].ret

\* C3: the output row of a group is one whole input row, the last row of the
\* group in sort order: date, rating, justification and recommendation all
\* come from that row, null or not.
C3_WholeLastRow ==
    GroupDone =>
        \A j \in Indices(df_last_records) :
            LET o == df_last_records[j]
                g == SelectSeq(df, LAMBDA r : KeyOf(r) = KeyOf(o))
                last == g[Len(g)]
            IN  /\ o.rating_date = last.rating_date
                /\ o.rating = last.rating
                /\ o.justification = last.justification
                /\ o.recommendation = last.recommendation

\* C4: every (project_id, project_name, optic_name) of a flattened input row,
\* null components included, has exactly one row in the dedupe output.
C4_EveryKeyKept ==
    GroupDone =>
        \A i \in Indices(all_rows) :
            Cardinality({j \in Indices(df_last_records) :
                           KeyOf(df_last_records[j]) = KeyOf(all_rows[i])}) = 1

\* the rows in ascending date order, rows of equal date in input order, the
\* rows without a date last
RECURSIVE StableByDate(_, _)
StableByDate(rows, days) ==
    IF days = {} THEN SelectSeq(rows, LAMBDA r : r.rating_date = NaT)
    ELSE LET d == CHOOSE x \in days : \A y \in days : x <= y
         IN  SelectSeq(rows, LAMBDA r : r.rating_date = d)
             \o StableByDate(rows, days \ {d})

\* C5: the sort by rating_date keeps the input order of rows with equal
\* dates, so that of two rows of a group with the same date the later one in
\* the input is the one kept.
C5_StableTieBreak ==
    /\ SortDone =>
          \A i \in Indices(all_rows) :
              LET InGroup(r) == KeyOf(r) = KeyOf(all_rows[i])
              IN  SelectSeq(df, InGroup)
                  = StableByDate(SelectSeq(ToDatetime(all_rows).value, InGroup),
                                 {DayOf(all_rows[j]) : j \in Indices(all_rows)} \ {NaT})
    /\ GroupDone =>
          \A j \in Indices(df_last_records) :
              LET o == df_last_records[j]
                  tied == SelectSeq(InputGroup(KeyOf(o)),
                                    LAMBDA r : DayOf(r) = MaxDay(KeyOf(o)))
              IN  /\ o.rating = tied[Len(tied)].rating
                  /\ o.justification = tied[Len(tied)].justification

\* C6: a rating_date that cannot be parsed does not abort the run; the row is
\* left out and the other rows go on to the sort and the dedupe.
C6_UnparsableDateExcluded ==
    /\ ~(pc = "raised" /\ error = "ValueError")
    /\ SortDone =>
          Len(df) = Cardinality({i \in Indices(all_rows) :
                       IsNull(all_rows[i].rating_date)
                       \/ all_rows[i].rating_date \in DOMAIN DateTable})

\* every entry of every tasks_output list, in document order
RECURSIVE AllEntries(_)
AllEntries(d) ==
    IF d = <<>> THEN <<>>
    ELSE (IF Head(d).kind = "dict" THEN Head(d).tasks_output.items ELSE <<>>)
         \o AllEntries(Tail(d))

IsRole(e) == e.agent.kind = "str" /\ e.agent.str = ConsolidatingRole

\* the role name, with any whitespace before and after it
IsPaddedRole(e) ==
    /\ e.agent.kind = "str"
    /\ \E a, b \in 1..(Len(e.agent.str) + 1) :
          /\ SubSeq(e.agent.str, a, b - 1) = ConsolidatingRole
          /\ \A i \in Indices(e.agent.str) :
                (i < a \/ i >= b) => e.agent.str[i] \in Whitespace

\* results holds, in order, the verdicts of the entries of data that satisfy Sel
ResultsAre(Sel(_)) ==
    LET es == SelectSeq(AllEntries(data), Sel)
    IN  /\ Len(results) = Len(es)
        /\ \A i \in Indices(es) :
              /\ results[i].project_id = Get(es[i].json_dict.project_id)
              /\ results[i].project_name = Get(es[i].json_dict.project_name)
              /\ results[i].rating_date = Get(es[i].json_dict.rating_date)
              /\ results[i].optic_ratings.items = es[i].json_dict.optic_ratings.items

C8_MalformedNeverRaises ==
    ~(pc = "raised" /\ error \in {"AttributeError", "KeyError", "TypeError"})

-----------------------------------------------------------------------------
(* The store's API, called directly *)

StoreRow(pid, pname, day, rating, justification) ==
    [project_id |-> pid, project_name |-> pname, rating_date |-> day,
     optic_name |-> "Schedule", rating |-> rating, justification |-> justification]

\* two rows of one key (project_id, rating_date, optic_name) that differ in
\* project_name, rating and justification, a row of another date, and a row
\* the CHECK constraint rejects
StoreRows ==
    { StoreRow("P1", "Alpha", 20240101, "Red", "j1"),
      StoreRow("P1", "Beta", 20240101, "Green", "j2"),
      StoreRow("P1", "Alpha", 20240201, "Amber", "j1"),
      StoreRow("P2", "Beta", 20240101, "Purple", "j1") }

\* what a call takes from the budget of the run: its rows, 1 when it has none
Cost(batch) == IF batch = <<>> THEN 1 ELSE Len(batch)

RECURSIVE Spent(_)
Spent(cs) == IF cs = <<>> THEN 0 ELSE Cost(Head(cs).batch) + Spent(Tail(cs))

\* bulk_insert_risk_assessments(assessments_data), lines 105-133, on rows of Rows
CallBulkFrom(Rows) ==
    /\ \E batch \in SeqsUpTo(Rows, MaxRows - Spent(calls)) :
         /\ Spent(calls) + Cost(batch) <= MaxRows
         /\ BeginBulk(batch)
    /\ UNCHANGED reportVars

\* insert_risk_assessment(assessment_data), lines 70-103, on a row of Rows
CallInsertFrom(Rows) ==
    /\ Spent(calls) < MaxRows
    /\ \E row \in Rows : InsertRiskAssessment(row)
    /\ UNCHANGED reportVars

CallBulk == CallBulkFrom(StoreRows)

CallInsert == CallInsertFrom(StoreRows)

InitStore ==
    /\ data = <<>>
    /\ pc = "api"
    /\ error = ""
    /\ results = <<>>
    /\ all_rows = <<>>
    /\ df = <<>>
    /\ df_last_records = <<>>
    /\ workbook = NoWorkbook
    /\ projects_data = <<>>
    /\ stored = <<>>
    /\ report_run = NoRun
    /\ risk_assessments = {}
    /\ next_id = 1
    /\ clock = 0
    /\ conn = Closed
    /\ calls = <<>>
    /\ faults = 0
    /\ latest = NoRead
    /\ project_data = {}
    /\ file_hashes = {}
    /\ runs = <<>>
    /\ text = NoText
    /\ processing_lock = 0
    /\ workers = NoWorkers
    /\ files = NoFiles
    /\ accepted = {}

NextStore ==
    \/ CallBulk /\ UNCHANGED sideVars
    \/ CallInsert /\ UNCHANGED sideVars
    \/ BulkExecute /\ UNCHANGED <<reportVars, sideVars>>
    \/ BulkCommit /\ UNCHANGED <<reportVars, sideVars>>
    \/ BulkRollback /\ UNCHANGED <<reportVars, sideVars>>

SpecStore == InitStore /\ [][NextStore]_vars

-----------------------------------------------------------------------------
(* Properties of the store *)

\* the rows of the successful upserts so far, oldest first
Written == Concat([i \in Indices(calls) |-> IF calls[i].ret THEN calls[i].batch ELSE <<>>])

\* the last row of a sequence that has the key of row
LastWithKey(rows, row) ==
    LET same == SelectSeq(rows, LAMBDA r : StoreKey(r) = StoreKey(row))
    IN  same[Len(same)]

\* C9: after any sequence of insert_risk_assessment and
\* bulk_insert_risk_assessments calls, risk_assessments holds at most one row
\* per (project_id, rating_date, optic_name), one for every key upserted with
\* success, with the rating and justification of the most recent such upsert.
C9_LastWriteWins ==
    /\ \A r, q \in risk_assessments : StoreKey(r) = StoreKey(q) => r = q
    /\ \A i \in Indices(Written) :
          \E r \in risk_assessments :
              /\ StoreKey(r) = StoreKey(Written[i])
              /\ r.rating = LastWithKey(Written, Written[i]).rating
              /\ r.justification = LastWithKey(Written, Written[i]).justification

\* C9 witness: an insert and then a bulk upsert of the same key with another
\* rating and justification, both successful, leave one row.
C9_Witness ==
    /\ Len(calls) = 2
    /\ calls[1].op = "insert" /\ calls[1].ret
    /\ calls[2].op = "bulk" /\ calls[2].ret /\ Len(calls[2].batch) = 1
    /\ StoreKey(calls[1].batch[1]) = StoreKey(calls[2].batch[1])
    /\ calls[1].batch[1].rating # calls[2].batch[1].rating
    /\ Cardinality(risk_assessments) = 1

-----------------------------------------------------------------------------
(* Properties of the store loop of generateReport *)

\* the positions of a row in the batches handed to process_data_to_database
BatchesWith(row) ==
    {<<i, k>> \in Indices(stored) \X (1..MaxRows) :
        k <= Len(stored[i].data) /\ stored[i].data[k] = row}

\* C20: in one generateReport run process_data_to_database is called once
\* for each project_id of the deduped rows: no project_id is called twice,
\* every row of a batch has the project_id of its call, and when the run is
\* done every project_id of the deduped rows has had its call and every
\* deduped row is in exactly one batch.
C20_OneBatchPerProject ==
    /\ \A i, j \in Indices(stored) :
          stored[i].project_id = stored[j].project_id => i = j
    /\ \A i \in Indices(stored) :
          /\ stored[i].data # <<>>
          /\ \A k \in Indices(stored[i].data) :
                /\ stored[i].data[k].project_id = stored[i].project_id
                /\ \E j \in Indices(df_last_records) :
                      df_last_records[j] = stored[i].data[k]
    /\ pc = "done" =>
          \A j \in Indices(df_last_records) :
              Cardinality(BatchesWith(df_last_records[j])) = 1

\* C20 witness: a run is done that made two calls, one of them with two rows
C20_Witness ==
    /\ pc = "done"
    /\ Len(stored) = 2
    /\ \E i \in Indices(stored) : Len(stored[i].data) = 2

-----------------------------------------------------------------------------
(* The read side of the store: RiskAssessmentDB.get_latest_ratings          *)
(* (database_handler.py) and GET /api/projects/{project_id}/latest          *)
(* (backend/app/main.py)                                                    *)

\* the optic names of O in ascending order
RECURSIVE SortOptics(_)
SortOptics(O) ==
    IF O = {} THEN <<>>
    ELSE LET m == CHOOSE o \in O : \A q \in O : StrRank[o] <= StrRank[q]
         IN  <<m>> \o SortOptics(O \ {m})

\* the sequences that hold, for each optic of S in ascending order, one of
\* the rows of S that are in F
OnePerOptic(S, F) ==
    LET os == SortOptics({r.optic_name : r \in S})
    IN  {sq \in [1..Len(os) -> S] :
           \A i \in 1..Len(os) : sq[i].optic_name = os[i] /\ sq[i] \in F}

\* ... ORDER BY optic_name, rating_date ASC
DistinctOnOldest(S) ==
    OnePerOptic(S, {r \in S : \A q \in S :
        q.optic_name = r.optic_name => r.rating_date <= q.rating_date})

\* SELECT DISTINCT ON (optic_name) ... ORDER BY optic_name, rating_date DESC
\* (lines 176-182; main.py lines 187-192): of the rows of each optic the first
\* in descending date order, any of them when several share that date
DistinctOn(S) ==
    OnePerOptic(S, {r \in S : \A q \in S :
        q.optic_name = r.optic_name => q.rating_date <= r.rating_date})

\* the six columns get_latest_ratings selects (lines 178 and 188-189)
SixColumns(r) ==
    [project_id |-> r.project_id, project_name |-> r.project_name,
     rating_date |-> r.rating_date, optic_name |-> r.optic_name,
     rating |-> r.rating, justification |-> r.justification]

\* WHERE project_id = %s AND rating_date = %s ORDER BY optic_name (lines
\* 168-173): rows of equal optic_name come in any order
OrderByOptic(S) ==
    {sq \in [1..Cardinality(S) -> S] :
        /\ \A i, j \in 1..Cardinality(S) : i # j => sq[i] # sq[j]
        /\ \A i, j \in 1..Cardinality(S) :
              i < j => StrRank[sq[i].optic_name] <= StrRank[sq[j].optic_name]}

Answer(op, pid, date, status, rows) ==
    [op |-> op, project_id |-> pid, rating_date |-> date, status |-> status,
     rows |-> rows, table |-> risk_assessments]

\* get_latest_ratings(project_id, rating_date), lines 165-193; rating_date
\* NaT stands for None.  An exception of the query is logged and answered
\* with the empty list.
GetLatestRatings(pid, date) ==
    /\ conn.state = "closed"
    /\ \E fault \in BOOLEAN :
         /\ fault => faults < MaxFaults
         /\ IF fault
            THEN /\ latest' = Answer("get_latest_ratings", pid, date, 500, <<>>)
                 /\ faults' = faults + 1
            ELSE /\ \E sq \in (IF date # NaT
                                THEN OrderByOptic({r \in risk_assessments :
                                        r.project_id = pid /\ r.rating_date = date})
                                ELSE DistinctOn({r \in risk_assessments :
                                        r.project_id = pid})) :
                        latest' = Answer("get_latest_ratings", pid, date, 200,
                                         [i \in 1..Len(sq) |-> SixColumns(sq[i])])
                 /\ UNCHANGED faults
    /\ UNCHANGED <<risk_assessments, next_id, clock, conn, calls>>
    /\ UNCHANGED <<reportVars, statusVars, text>>

\* get_latest_assessments(project_id), main.py lines 181-219, on its own
\* connection: 404 when the project has no row, 500 on any other exception
GetLatestAssessments(pid) ==
    /\ \E fault \in BOOLEAN :
         /\ fault => faults < MaxFaults
         /\ IF fault
            THEN /\ latest' = Answer("get_latest_assessments", pid, NaT, 500, <<>>)
                 /\ faults' = faults + 1
            ELSE /\ \E sq \in DistinctOn({r \in risk_assessments : r.project_id = pid}) :
                        latest' = Answer("get_latest_assessments", pid, NaT,
                                         IF sq = <<>> THEN 404 ELSE 200, sq)
                 /\ UNCHANGED faults
    /\ UNCHANGED <<risk_assessments, next_id, clock, conn, calls>>
    /\ UNCHANGED <<reportVars, statusVars, text>>

\* ratings of one optic of P1 on three dates, of a second optic of P1, and
\* of the first optic for P2 on the latest date
LatestRows ==
    { StoreRow("P1", "Alpha", 20240101, "Red", "j1"),
      StoreRow("P1", "Alpha", 20240201, "Amber", "j2"),
      StoreRow("P1", "Alpha", 20240301, "Green", "j1"),
      [StoreRow("P1", "Alpha", 20240201, "Red", "j2") EXCEPT !.optic_name = "Budget"],
      StoreRow("P2", "Beta", 20240301, "Red", "j1") }

ProjectIds == {"P1", "P2"}

NextLatest ==
    \/ CallInsertFrom(LatestRows) /\ UNCHANGED sideVars
    \/ \E pid \in ProjectIds, date \in {NaT, 20240201} : GetLatestRatings(pid, date)
    \/ \E pid \in ProjectIds : GetLatestAssessments(pid)

SpecLatest == InitStore /\ [][NextLatest]_vars

-----------------------------------------------------------------------------
(* Properties of the read side *)

\* the rows of the table the last read was made on that belong to its project
ReadFrom == {r \in latest.table : r.project_id = latest.project_id}

\* C11: a latest-ratings read without a date that the database answers
\* returns exactly one row for each optic_name the project has a row of; the
\* row is a row of the project and carries the maximum rating_date of the
\* project's rows of that optic.
C11_LatestPerOptic ==
    (latest.status \in {200, 404} /\ latest.rating_date = NaT) =>
        /\ \A o \in {r.optic_name : r \in ReadFrom} :
              Cardinality({i \in Indices(latest.rows) :
                             latest.rows[i].optic_name = o}) = 1
        /\ \A i \in Indices(latest.rows) :
              /\ latest.rows[i].project_id = latest.project_id
              /\ \E r \in ReadFrom : SixColumns(r) = SixColumns(latest.rows[i])
              /\ \A q \in ReadFrom :
                    q.optic_name = latest.rows[i].optic_name
                        => q.rating_date <= latest.rows[i].rating_date

\* C11 witness: get_latest_ratings on a project with two optics, one of them
\* rated on two dates with the older rating written last, returned two rows.
C11_Witness ==
    /\ latest.op = "get_latest_ratings"
    /\ latest.status = 200
    /\ latest.rating_date = NaT
    /\ Cardinality(ReadFrom) = 3
    /\ Len(latest.rows) = 2
    /\ \E r, q \in ReadFrom :
          /\ r.optic_name = q.optic_name
          /\ r.rating_date < q.rating_date
          /\ r.id > q.id

-----------------------------------------------------------------------------
(* Status ingestion: backend/file_handler.py, backend/file_watcher.py and  *)
(* POST /api/process-rows of backend/app/main.py.                           *)
(*                                                                         *)
(* A spreadsheet cell is empty (NaN), a text or a date; a text is a         *)
(* sequence of tokens, like an agent name.  A row maps the sheet's column   *)
(* names to cells.  Of the ten commentary columns, which the code treats    *)
(* alike, the model carries 'Executive Summary' and 'Comments on Budget'.   *)

NaN == [kind |-> "nan", str |-> <<>>, day |-> NaT]

TextCell(s) == [kind |-> "str", str |-> s, day |-> NaT]

DateCell(d) == [kind |-> "ts", str |-> <<>>, day |-> d]

IsoOf == (20240101 :> "2024-01-01") @@ (20240201 :> "2024-02-01")

\* str(value) of a cell that is not NaN; a Timestamp prints with its time
Str(cell) ==
    IF cell.kind = "ts" THEN <<IsoOf[cell.day], " ", "00:00:00">> ELSE cell.str

\* the day a text stands for, NaT when it is no timestamp: "2024-01-01" and
\* "2024-01-01 00:00:00" parse, a text with anything else in it does not
ParseDay(s) ==
    IF Len(s) = 1 /\ s[1] \in DOMAIN DateTable THEN DateTable[s[1]]
    ELSE IF Len(s) = 3 /\ s[1] \in DOMAIN DateTable /\ s[2] = " " /\ s[3] = "00:00:00"
         THEN DateTable[s[1]]
         ELSE NaT

\* file_handler.py line 24, file_watcher.py line 70
RequiredColumns == <<"Number", "Project Name", "Updated">>

Sheet(columns, rows) == [columns |-> columns, rows |-> rows]

\* file_handler.safe_get (lines 167-175): the default for a column the row
\* does not have and for an empty cell, else the stripped text
SafeGet(row, column_name, default) ==
    IF column_name \notin DOMAIN row THEN default
    ELSE IF row[column_name].kind = "nan" THEN default
    ELSE Strip(Str(row[column_name]))

\* file_handler.format_section (lines 177-181)
FormatSection(section_name, content) ==
    IF content = <<>> \/ Strip(content) = <<>> THEN <<>>
    ELSE <<section_name, ":", " ">> \o Strip(content)

\* "\n".join(parts)
RECURSIVE JoinLines(_)
JoinLines(parts) ==
    IF parts = <<>> THEN <<>>
    ELSE IF Len(parts) = 1 THEN parts[1]
    ELSE parts[1] \o <<"\n">> \o JoinLines(Tail(parts))

\* "\n".join([s for s in sections if s.strip()]), file_handler.py line 126
\* and file_watcher.py line 133
CombineSections(sections) ==
    JoinLines(SelectSeq(sections, LAMBDA x : Strip(x) # <<>>))

\* the values of one INSERT INTO project_data
StatusValues(pid, pname, updated, summary, budget, combined) ==
    [project_id |-> pid, project_name |-> pname, updated |-> updated,
     executive_summary |-> summary, comments_on_budget |-> budget,
     combined_data |-> combined]

NoValues == StatusValues(<<>>, <<>>, NaT, <<>>, <<>>, <<>>)

\* file_handler.process_single_row, lines 72-126: the validation of a row
\* and the values it writes
RowValues(row) ==
    LET project_id == Strip(SafeGet(row, "Number", <<>>))
        project_name == Strip(SafeGet(row, "Project Name", <<>>))
        updated_value == SafeGet(row, "Updated", <<>>)
        summary == FormatSection("Executive Summary",
                                 SafeGet(row, "Executive Summary", <<>>))
        budget == FormatSection("Comments on Budget",
                                SafeGet(row, "Comments on Budget", <<>>))
    IN  IF project_id = <<>>
        THEN [error |-> "Missing project ID (Number)", values |-> NoValues]
        ELSE IF project_name = <<>>
        THEN [error |-> "Missing project name", values |-> NoValues]
        ELSE IF updated_value = <<>>
        THEN [error |-> "Missing updated date", values |-> NoValues]
        ELSE IF ParseDay(updated_value) = NaT
        THEN [error |-> "Invalid date format", values |-> NoValues]
        ELSE [error |-> "",
              values |-> StatusValues(project_id, project_name,
                                      ParseDay(updated_value), summary, budget,
                                      CombineSections(<<summary, budget>>))]

\* the unique constraint (project_id, project_name, updated) of project_data:
\* two rows conflict when they agree on all three and none is null
Conflicts(r, w) ==
    /\ r.project_id = w.project_id
    /\ r.project_name = w.project_name
    /\ r.updated = w.updated
    /\ w.updated # NaT

\* INSERT INTO project_data ... ON CONFLICT (project_id, project_name,
\* updated) DO UPDATE SET ..., processed_at = CURRENT_TIMESTAMP
\* (file_handler.py lines 130-155, main.py lines 321-345)
UpsertStatus(table, w, now) ==
    IF \E r \in table : Conflicts(r, w)
    THEN { IF Conflicts(r, w)
           THEN [r EXCEPT !.executive_summary = w.executive_summary,
                          !.comments_on_budget = w.comments_on_budget,
                          !.combined_data = w.combined_data,
                          !.processed_at = now]
           ELSE r : r \in table }
    ELSE table \cup {[rowid |-> Cardinality(table) + 1,
                      project_id |-> w.project_id,
                      project_name |-> w.project_name,
                      updated |-> w.updated,
                      executive_summary |-> w.executive_summary,
                      comments_on_budget |-> w.comments_on_budget,
                      combined_data |-> w.combined_data,
                      processed_at |-> now]}

RowError(i, e) == [row |-> i, error |-> e]

\* file_handler.py lines 32-50, the loop over the rows on one psycopg2
\* connection: a statement that raises leaves the transaction aborted, and
\* every later statement of the connection raises until a rollback
RECURSIVE HandlerRows(_, _, _, _, _)
HandlerRows(rows, i, faultAt, now, st) ==
    IF i > Len(rows) THEN st
    ELSE LET v == RowValues(rows[i])
             skip(e) == [st EXCEPT !.skipped_rows = @ + 1,
                                   !.errors = Append(@, RowError(i, e))]
         IN  HandlerRows(rows, i + 1, faultAt, now,
                 IF v.error # "" THEN skip(v.error)
                 ELSE IF st.aborted THEN skip("InFailedSqlTransaction")
                 ELSE IF faultAt = i
                 THEN [skip("DatabaseError") EXCEPT !.aborted = TRUE]
                 ELSE [st EXCEPT !.work = UpsertStatus(@, v.values, now),
                                 !.rows_processed = @ + 1])

Result(success, status, err, missing, processed, skipped, errors) ==
    [success |-> success, status |-> status, error |-> err,
     missing |-> missing, rows_processed |-> processed,
     skipped_rows |-> skipped, errors |-> errors]

NoSheet == Sheet({}, <<>>)

\* the number of ingestions so far
StatusSpent(rs) == IF rs = <<>> THEN 0 ELSE rs[Len(rs)].spent

\* one finished ingestion: what was called, on which sheet, the rows sent to
\* the API, the statement that raised (0: none, -1: no connection), the
\* answer, and project_data before and after
Run(op, sheet, request, fault, result, before, after) ==
    [op |-> op, sheet |-> sheet, request |-> request, fault |-> fault,
     result |-> result, before |-> before, after |-> after,
     spent |-> StatusSpent(runs) + 1]

\* the log with one more run, cut to its last two
Logged(run) == IF runs = <<>> THEN <<run>> ELSE <<runs[Len(runs)], run>>

MissingColumns(sheet) == SelectSeq(RequiredColumns, LAMBDA c : c \notin sheet.columns)

\* process_excel_file_complete(file_path), file_handler.py lines 10-70.
\* get_db_connection is neither defined nor imported in file_handler.py: as
\* the module stands line 17 raises NameError, which line 63 catches; with a
\* psycopg2 connection factory bound to the name it returns a connection or
\* raises.  Both outcomes are taken (fault -1: raised).  COMMIT on an aborted
\* transaction is a rollback and raises nothing.
ProcessExcelFileComplete(sheet) ==
    /\ StatusSpent(runs) < MaxRuns
    /\ \E fault \in -1..Len(sheet.rows) :
         /\ fault > 0 => /\ faults < MaxFaults
                         /\ MissingColumns(sheet) = <<>>
                         /\ RowValues(sheet.rows[fault]).error = ""
         /\ LET st == HandlerRows(sheet.rows, 1, fault, clock + 1,
                          [work |-> project_data, aborted |-> FALSE,
                           rows_processed |-> 0, skipped_rows |-> 0,
                           errors |-> <<>>])
                after == IF fault = -1 \/ MissingColumns(sheet) # <<>> \/ st.aborted
                         THEN project_data ELSE st.work
                result ==
                    IF fault = -1
                    THEN Result(FALSE, 0, "get_db_connection", <<>>, 0, 0, <<>>)
                    ELSE IF MissingColumns(sheet) # <<>>
                    THEN Result(FALSE, 0, "Missing required columns",
                                MissingColumns(sheet), 0, 0, <<>>)
                    ELSE Result(TRUE, 0, "", <<>>, st.rows_processed,
                                st.skipped_rows, st.errors)
            IN  /\ project_data' = after
                /\ runs' = Logged(Run("process_excel_file_complete", sheet,
                                            <<>>, fault, result, project_data, after))
         /\ faults' = IF fault > 0 THEN faults + 1 ELSE faults
    /\ clock' = clock + 1
    /\ UNCHANGED <<file_hashes, latest, risk_assessments, next_id, conn, calls>>
    /\ UNCHANGED <<reportVars, text, watchVars>>

\* a row of the /api/process-rows request body; missing: the keys the JSON
\* object does not have
RowData(pid, pname, updated, summary, budget, combined, missing) ==
    [project_id |-> pid, project_name |-> pname, updated |-> updated,
     executive_summary |-> summary, comments_on_budget |-> budget,
     combined_data |-> combined, missing |-> missing]

\* main.py lines 42-45: the fields of RowData without a default
RequiredFields == {"project_id", "project_name", "updated"}

\* parse_datetime, main.py lines 311-315: None when fromisoformat raises
ParseDatetime(value) == ParseDay(value)

\* the loop of process_rows (main.py lines 286-289) over process_single_row
\* (lines 317-362): each statement is committed on its own, a statement that
\* raises is logged and the loop goes on
RECURSIVE ApiRowsLoop(_, _, _, _, _)
ApiRowsLoop(rows, i, faultAt, now, st) ==
    IF i > Len(rows) THEN st
    ELSE ApiRowsLoop(rows, i + 1, faultAt, now,
             IF faultAt = i THEN st
             ELSE [work |-> UpsertStatus(st.work,
                                StatusValues(rows[i].project_id, rows[i].project_name,
                                             ParseDatetime(rows[i].updated),
                                             rows[i].executive_summary,
                                             rows[i].comments_on_budget,
                                             rows[i].combined_data), now),
                   rows_processed |-> st.rows_processed + 1])

\* POST /api/process-rows, main.py lines 277-307: FastAPI answers 422 to a
\* body that is no ProcessRequest; a connection that fails is answered with
\* success False
ApiAnswer(table, rows, fault, now) ==
    IF \E i \in 1..Len(rows) : rows[i].missing \cap RequiredFields # {}
    THEN [result |-> Result(FALSE, 422, "validation", <<>>, 0, 0, <<>>),
          after |-> table]
    ELSE IF fault = -1
    THEN [result |-> Result(FALSE, 200, "connection", <<>>, 0, 0, <<>>),
          after |-> table]
    ELSE LET st == ApiRowsLoop(rows, 1, fault, now,
                               [work |-> table, rows_processed |-> 0])
         IN  [result |-> Result(TRUE, 200, "", <<>>, st.rows_processed, 0, <<>>),
              after |-> st.work]

ProcessRows(rows) ==
    /\ StatusSpent(runs) < MaxRuns
    /\ \E fault \in -1..Len(rows) :
         /\ fault # 0 => faults < MaxFaults
         /\ fault # 0 => \A i \in 1..Len(rows) : rows[i].missing \cap RequiredFields = {}
         /\ LET a == ApiAnswer(project_data, rows, fault, clock + 1)
            IN  /\ project_data' = a.after
                /\ runs' = Logged(Run("process_rows", NoSheet, rows, fault,
                                            a.result, project_data, a.after))
         /\ faults' = IF fault # 0 THEN faults + 1 ELSE faults
    /\ clock' = clock + 1
    /\ UNCHANGED <<file_hashes, latest, risk_assessments, next_id, conn, calls>>
    /\ UNCHANGED <<reportVars, text, watchVars>>

\* ExcelFileHandler.safe_get, file_watcher.py lines 141-147
WatcherSafeGet(row, column_name) ==
    IF column_name \notin DOMAIN row THEN <<>>
    ELSE IF row[column_name].kind = "nan" THEN <<>>
    ELSE Strip(Str(row[column_name]))

\* ExcelFileHandler.format_section on row.get(column), lines 149-152
WatcherFormatSection(section_name, row, column_name) ==
    IF WatcherSafeGet(row, column_name) = <<>> THEN <<>>
    ELSE <<section_name, ":", " ">> \o WatcherSafeGet(row, column_name)

\* ExcelFileHandler.extract_row_data, lines 89-139: no row or one
ExtractRowData(row) ==
    LET project_id == WatcherSafeGet(row, "Number")
        project_name == WatcherSafeGet(row, "Project Name")
        updated == WatcherSafeGet(row, "Updated")
        summary == WatcherFormatSection("Executive Summary", row, "Executive Summary")
        budget == WatcherFormatSection("Comments on Budget", row, "Comments on Budget")
    IN  IF project_id = <<>> \/ project_name = <<>> \/ updated = <<>> THEN <<>>
        ELSE <<RowData(Strip(project_id), Strip(project_name), updated, summary,
                       budget, CombineSections(<<summary, budget>>), {})>>

\* ExcelFileHandler.extract_rows_from_excel, lines 66-87
ExtractRowsFromExcel(sheet) ==
    IF MissingColumns(sheet) # <<>> THEN <<>>
    ELSE Concat([i \in 1..Len(sheet.rows) |-> ExtractRowData(sheet.rows[i])])

\* ExcelFileHandler.process_file_sync, lines 35-59, under processing_lock,
\* with send_to_api_service (lines 154-176): a file whose content is the one
\* last seen is skipped; the rows, if any, are posted to /api/process-rows
ProcessFileSync(sheet) ==
    /\ StatusSpent(runs) < MaxRuns
    /\ LET rows_data == ExtractRowsFromExcel(sheet)
       IN  IF sheet \in file_hashes
           THEN /\ runs' = Logged(Run("process_file_sync", sheet, <<>>, 0,
                                            Result(FALSE, 0, "unchanged", <<>>, 0, 0, <<>>),
                                            project_data, project_data))
                /\ UNCHANGED <<project_data, file_hashes, faults>>
           ELSE IF rows_data = <<>>
           THEN /\ runs' = Logged(Run("process_file_sync", sheet, <<>>, 0,
                                            Result(FALSE, 0, "No valid rows", <<>>, 0, 0, <<>>),
                                            project_data, project_data))
                /\ file_hashes' = {sheet}
                /\ UNCHANGED <<project_data, faults>>
           ELSE \E fault \in -1..Len(rows_data) :
                  /\ fault # 0 => faults < MaxFaults
                  /\ LET a == ApiAnswer(project_data, rows_data, fault, clock + 1)
                     IN  /\ project_data' = a.after
                         /\ runs' = Logged(Run("process_file_sync", sheet,
                                                     rows_data, fault, a.result,
                                                     project_data, a.after))
                  /\ faults' = IF fault # 0 THEN faults + 1 ELSE faults
                  /\ file_hashes' = {sheet}
    /\ clock' = clock + 1
    /\ UNCHANGED <<latest, risk_assessments, next_id, conn, calls>>
    /\ UNCHANGED <<reportVars, text, watchVars>>

\* a row of a sheet that has every column
StatusRow(number, name, updated, summary) ==
    ("Number" :> number) @@ ("Project Name" :> name) @@ ("Updated" :> updated)
    @@ ("Executive Summary" :> summary) @@ ("Comments on Budget" :> NaN)

AllColumns ==
    {"Number", "Project Name", "Updated", "Executive Summary", "Comments on Budget"}

RowOk ==
    StatusRow(TextCell(<<"P1">>), TextCell(<<"Alpha">>), DateCell(20240101),
              TextCell(<<"ok">>))

\* the key of RowOk with another summary
RowLate ==
    StatusRow(TextCell(<<"P1">>), TextCell(<<"Alpha">>), DateCell(20240101),
              TextCell(<<"late">>))

\* a second project: a padded Number, a date typed as text, no summary
RowP2 ==
    StatusRow(TextCell(<<" ", "P2">>), TextCell(<<"Beta">>),
              TextCell(<<"2024-02-01">>), NaN)

RowBlankId ==
    StatusRow(TextCell(<<" ">>), TextCell(<<"Alpha">>), DateCell(20240101),
              TextCell(<<"ok">>))

RowNoName == StatusRow(TextCell(<<"P1">>), NaN, DateCell(20240101), TextCell(<<"ok">>))

RowBadDate ==
    StatusRow(TextCell(<<"P1">>), TextCell(<<"Alpha">>), TextCell(<<"not-a-date">>),
              TextCell(<<"ok">>))

RowNoDate == StatusRow(TextCell(<<"P1">>), TextCell(<<"Alpha">>), NaN, TextCell(<<"ok">>))

Without(row, columns) == [c \in (DOMAIN row) \ columns |-> row[c]]

\* The spreadsheets: an empty sheet, rows alone, a batch of three valid
\* rows, a batch of a rejected and a valid row, and sheets that lack Number
\* or Number and Updated.
Sheets ==
    { Sheet(AllColumns, rs) :
        rs \in { <<>>, <<RowOk>>, <<RowLate>>, <<RowBlankId>>, <<RowNoName>>,
                 <<RowBadDate>>, <<RowNoDate>>,
                 <<RowOk, RowP2, RowLate>>, <<RowBadDate, RowP2>> } }
    \cup { Sheet(AllColumns \ cs, <<Without(RowOk, cs)>>) :
             cs \in {{"Number"}, {"Number", "Updated"}} }

ApiOk ==
    RowData(<<"P1">>, <<"Alpha">>, <<"2024-01-01">>,
            <<"Executive Summary", ":", " ", "ok">>, <<>>,
            <<"Executive Summary", ":", " ", "ok">>, {})

ApiP2 == RowData(<<"P2">>, <<"Beta">>, <<"2024-02-01">>, <<>>, <<>>, <<>>, {})

ApiBlankId == RowData(<<" ">>, <<"Alpha">>, <<"2024-01-01">>, <<>>, <<>>, <<>>, {})

ApiBadDate == RowData(<<"P1">>, <<"Alpha">>, <<"not-a-date">>, <<>>, <<>>, <<>>, {})

ApiNoDate == RowData(<<"P1">>, <<"Alpha">>, <<>>, <<>>, <<>>, <<>>, {"updated"})

\* The request bodies a client can post: rows as the watcher sends them,
\* and rows with a blank project_id, an updated that is no timestamp, or no
\* updated at all, alone and next to a valid row.
Requests ==
    { <<>>, <<ApiOk>>, <<ApiBlankId>>, <<ApiBadDate>>, <<ApiNoDate>>,
      <<ApiOk, ApiP2, ApiOk>>, <<ApiBadDate, ApiOk>>, <<ApiOk, ApiNoDate>> }

NextStatus ==
    \/ \E sheet \in Sheets : ProcessExcelFileComplete(sheet)
    \/ \E sheet \in Sheets : ProcessFileSync(sheet)
    \/ \E rows \in Requests : ProcessRows(rows)

SpecStatus == InitStore /\ [][NextStatus]_vars

-----------------------------------------------------------------------------
(* Properties of the status ingestion *)

StatusKey(r) == <<r.project_id, r.project_name, r.updated>>

\* a row of project_data without its row identity and processed_at
Fields(r) ==
    StatusValues(r.project_id, r.project_name, r.updated, r.executive_summary,
                 r.comments_on_budget, r.combined_data)

\* the values a request row stands for
RequestValues(row) ==
    StatusValues(row.project_id, row.project_name, ParseDay(row.updated),
                 row.executive_summary, row.comments_on_budget, row.combined_data)

\* a status row as the spec accepts it: project_id and project_name not
\* empty after trimming, updated present and a timestamp
ValidSheetRow(row) ==
    /\ SafeGet(row, "Number", <<>>) # <<>>
    /\ SafeGet(row, "Project Name", <<>>) # <<>>
    /\ ParseDay(SafeGet(row, "Updated", <<>>)) # NaT

ValidRequestRow(row) ==
    /\ row.missing \cap RequiredFields = {}
    /\ Strip(row.project_id) # <<>>
    /\ Strip(row.project_name) # <<>>
    /\ ParseDay(row.updated) # NaT

\* the run applied a batch through the file handler or the API
IsBatch(run) ==
    \/ run.op = "process_excel_file_complete" /\ MissingColumns(run.sheet) = <<>>
    \/ run.op = "process_rows"
    \/ run.op = "process_file_sync" /\ run.request # <<>>

\* the keys of the valid rows of the run's batch, but of row number skip
ValidKeys(run, skip) ==
    IF run.op = "process_excel_file_complete"
    THEN { StatusKey(RowValues(run.sheet.rows[i]).values) :
             i \in {j \in Indices(run.sheet.rows) :
                      j # skip /\ ValidSheetRow(run.sheet.rows[j])} }
    ELSE { StatusKey(RequestValues(run.request[i])) :
             i \in {j \in Indices(run.request) :
                      j # skip /\ ValidRequestRow(run.request[j])} }

\* C12: applying a batch of status rows a second time, through
\* process_excel_file_complete or /api/process-rows, leaves project_data with
\* the rows and field values it had after the first time, processed_at
\* aside, and no (project_id, project_name, updated) is there twice.
C12_StatusIdempotent ==
    (/\ Len(runs) = 2
     /\ runs[1].op = runs[2].op
     /\ runs[1].op \in {"process_excel_file_complete", "process_rows"}
     /\ runs[1].sheet = runs[2].sheet
     /\ runs[1].request = runs[2].request
     /\ runs[1].fault = runs[2].fault
     /\ runs[1].fault <= 0)
    => /\ {Fields(r) : r \in runs[2].after} = {Fields(r) : r \in runs[1].after}
       /\ Cardinality(runs[2].after) = Cardinality(runs[1].after)
       /\ \A r, q \in runs[2].after : StatusKey(r) = StatusKey(q) => r = q

C14_RejectedNeverWritten ==
    /\ \A r \in project_data :
          /\ Strip(r.project_id) # <<>>
          /\ Strip(r.project_name) # <<>>
          /\ r.updated # NaT
    /\ \A n \in Indices(runs) :
          (IsBatch(runs[n]) /\ runs[n].fault = 0) =>
              \A k \in ValidKeys(runs[n], 0) :
                  \E r \in runs[n].after : StatusKey(r) = k

\* C15: a spreadsheet that lacks a required column is rejected as a whole:
\* the answer is a failure that names every missing required column,
\* rows_processed is 0, nothing is written and nothing is sent to the API.
C15_MissingColumnRejected ==
    \A n \in Indices(runs) :
        (runs[n].op \in {"process_excel_file_complete", "process_file_sync"}
         /\ MissingColumns(runs[n].sheet) # <<>>
         /\ runs[n].result.error # "unchanged") =>
            /\ ~runs[n].result.success
            /\ runs[n].result.missing = MissingColumns(runs[n].sheet)
            /\ runs[n].result.rows_processed = 0
            /\ runs[n].after = runs[n].before
            /\ runs[n].request = <<>>

-----------------------------------------------------------------------------
(* The cell normalizers: _extract_text_content of ProjectStatusParser       *)
(* (project_excel_data_analyzer.py) and of ProjectStatusParserDB            *)
(* (project_risk_analyzer.py), and extract_text_from_html of                *)
(* process_status_report.  A text is a sequence of tokens: the characters   *)
(* the normalizers look for ("<", ">", "&", white space) are tokens of      *)
(* their own, every other token is a run of characters without them, so     *)
(* the entity "&lt;" is the two tokens "&" and "lt;".                       *)

\* the first index of s from i on that holds token t, 0 when there is none
FirstAt(s, t, i) ==
    LET J == {j \in i..Len(s) : s[j] = t}
    IN  IF J = {} THEN 0 ELSE CHOOSE j \in J : \A k \in J : j <= k

\* re.sub(r'<[^>]*>', rep, s) with least = 0, re.sub(r'<[^>]+>', rep, s) with
\* least = 1: a match runs from a "<" to the first ">" after it
RECURSIVE SubTags(_, _, _)
SubTags(s, rep, least) ==
    IF s = <<>> THEN <<>>
    ELSE LET close == FirstAt(s, ">", 2)
         IN  IF Head(s) = "<" /\ close # 0 /\ close - 2 >= least
             THEN rep \o SubTags(SubSeq(s, close + 1, Len(s)), rep, least)
             ELSE <<Head(s)>> \o SubTags(Tail(s), rep, least)

\* s.replace(old, new): the occurrences of old from left to right, the
\* replacement is not searched again
RECURSIVE Replace(_, _, _)
Replace(s, old, new) ==
    IF Len(s) < Len(old) THEN s
    ELSE IF SubSeq(s, 1, Len(old)) = old
         THEN new \o Replace(SubSeq(s, Len(old) + 1, Len(s)), old, new)
         ELSE <<Head(s)>> \o Replace(Tail(s), old, new)

\* re.sub(r'\s+', ' ', s)
RECURSIVE CollapseSpace(_)
CollapseSpace(s) ==
    IF s = <<>> THEN <<>>
    ELSE IF Head(s) \in Whitespace THEN <<" ">> \o CollapseSpace(LStrip(s))
    ELSE <<Head(s)>> \o CollapseSpace(Tail(s))

\* ProjectStatusParser._extract_text_content (lines 78-97)
ExtractTextContent(cell) ==
    IF cell.kind = "nan" \/ (cell.kind = "str" /\ cell.str = <<>>) THEN <<>>
    ELSE Strip(CollapseSpace(SubTags(Str(cell), <<>>, 0)))

\* ProjectStatusParserDB._extract_text_content (lines 83-91): None and ''
\* are the falsy values a column of project_data gives
ExtractTextContentDB(cell) ==
    IF cell.kind = "nan" \/ (cell.kind = "str" /\ cell.str = <<>>) THEN <<>>
    ELSE Strip(CollapseSpace(SubTags(Str(cell), <<>>, 0)))

\* the entities extract_text_from_html decodes, in the order of lines 391-392
Entities ==
    << <<<<"&", "nbsp;">>, <<" ">>>>, <<<<"&", "amp;">>, <<"&">>>>,
       <<<<"&", "lt;">>, <<"<">>>>, <<<<"&", "gt;">>, <<">">>>> >>

RECURSIVE ReplaceEach(_, _)
ReplaceEach(s, pairs) ==
    IF pairs = <<>> THEN s
    ELSE ReplaceEach(Replace(s, pairs[1][1], pairs[1][2]), Tail(pairs))

\* process_status_report.extract_text_from_html (lines 381-398)
ExtractTextFromHtml(cell) ==
    IF cell.kind = "nan"
       \/ (cell.kind = "str"
           /\ cell.str \in {<<>>, <<"-">>, <<"n/a">>, <<"nan">>, <<"None">>})
    THEN <<>>
    ELSE Strip(CollapseSpace(ReplaceEach(SubTags(Str(cell), <<" ">>, 1), Entities)))

\* the tokens the cell texts are made of
TextTokens == {"<", ">", "&", "amp;", "lt;", "nbsp;", " ", "-", "b"}

\* the longest cell text given to a normalizer
MaxText == 3

Texts == SeqsUpTo(TextTokens, MaxText)

\* a normalizer applied to a cell, and applied again to what it gave
Normalized(op, cell, once, twice) ==
    [op |-> op, cell |-> cell, once |-> once, twice |-> twice]

NormalizeParser(x) ==
    /\ text = NoText
    /\ text' = Normalized("_extract_text_content", TextCell(x),
                          ExtractTextContent(TextCell(x)),
                          ExtractTextContent(TextCell(ExtractTextContent(TextCell(x)))))
    /\ UNCHANGED <<reportVars, storeVars, latest, statusVars>>

NormalizeDB(x) ==
    /\ text = NoText
    /\ text' = Normalized("_extract_text_content (DB)", TextCell(x),
                          ExtractTextContentDB(TextCell(x)),
                          ExtractTextContentDB(TextCell(ExtractTextContentDB(TextCell(x)))))
    /\ UNCHANGED <<reportVars, storeVars, latest, statusVars>>

NormalizeHtml(x) ==
    /\ text = NoText
    /\ text' = Normalized("extract_text_from_html", TextCell(x),
                          ExtractTextFromHtml(TextCell(x)),
                          ExtractTextFromHtml(TextCell(ExtractTextFromHtml(TextCell(x)))))
    /\ UNCHANGED <<reportVars, storeVars, latest, statusVars>>

-----------------------------------------------------------------------------
(* The consolidators: process_single_row (file_handler.py) and              *)
(* extract_row_data (file_watcher.py) build combined_data;                  *)
(* process_status_report, extract_project_data with main, and               *)
(* ProjectStatusParser.get_projects_for_analysis                            *)
(* (project_excel_data_analyzer.py) and get_projects_from_db with main      *)
(* (project_risk_analyzer.py) build the project_text of the rating engine.  *)

\* the commentary columns of the model, in the order of text_columns
TextColumns == <<"Executive Summary", "Comments on Budget">>

\* df['Updated'] = pd.to_datetime(df['Updated']): the day of a cell, NaT for
\* an empty one
UpdatedDay(row) ==
    IF row["Updated"].kind = "ts" THEN row["Updated"].day
    ELSE IF row["Updated"].kind = "nan" THEN NaT
    ELSE ParseDay(row["Updated"].str)

\* pd.to_datetime raises on a text that is no date
ToDatetimeFails(rows) ==
    \E i \in Indices(rows) :
        rows[i]["Updated"].kind = "str" /\ ParseDay(rows[i]["Updated"].str) = NaT

\* df.groupby(['Project Name', 'Number']): rows with an empty key cell are
\* in no group
GroupKey(row) == <<Str(row["Project Name"]), Str(row["Number"])>>

HasKey(row) == row["Project Name"].kind # "nan" /\ row["Number"].kind # "nan"

GroupOf(rows, k) == SelectSeq(rows, LAMBDA r : HasKey(r) /\ GroupKey(r) = k)

ProjectGroups(rows) == {GroupKey(rows[i]) : i \in {j \in Indices(rows) : HasKey(rows[j])}}

\* the group keys in ascending order, as groupby yields them
RECURSIVE SortProjectGroups(_)
SortProjectGroups(K) ==
    IF K = {} THEN <<>>
    ELSE LET rank(k) == <<StrRank[k[1][1]], StrRank[k[2][1]]>>
             m == CHOOSE k \in K : \A q \in K :
                      \/ rank(k)[1] < rank(q)[1]
                      \/ rank(k)[1] = rank(q)[1] /\ rank(k)[2] <= rank(q)[2]
         IN  <<m>> \o SortProjectGroups(K \ {m})

\* group['Updated'].idxmax() finds no row when every Updated of the group
\* is NaT, and group.loc of it raises
IdxmaxFails(group) == \A i \in Indices(group) : UpdatedDay(group[i]) = NaT

\* group.sort_values('Updated'): ascending, NaT last, rows of equal Updated
\* in any order
SortByUpdated(group) ==
    LET n == Len(group)
        ok(p) == \A i, j \in 1..n : i < j =>
                    LET a == UpdatedDay(group[p[i]])
                        b == UpdatedDay(group[p[j]])
                    IN  /\ a = NaT => b = NaT
                        /\ (a # NaT /\ b # NaT) => a <= b
    IN  { [i \in 1..n |-> group[p[i]]] : p \in {q \in Perms(n) : ok(q)} }

\* the parts of one record, lines 409-414 of concatenate_project_text; four
\* blanks are appended to the extracted text before it is tested
RecordTextParts(record, columns) ==
    LET part(col) ==
            IF col \in columns /\ col \in DOMAIN record /\ record[col].kind # "nan"
            THEN LET extracted_text ==
                         ExtractTextFromHtml(record[col]) \o <<" ", " ", " ", " ">>
                 IN  IF extracted_text # <<>>
                        /\ extracted_text \notin {<<"-">>, <<"n/a">>, <<"nan">>, <<"None">>}
                     THEN << <<"-- ", col, " -- >> ">> \o extracted_text >>
                     ELSE <<>>
            ELSE <<>>
    IN  Concat([i \in Indices(TextColumns) |-> part(TextColumns[i])])

\* f"\n--- Record from {date_str} ---"
RecordHeader(day) == <<"\n", "--- Record from ", IsoOf[day], " ---">>

\* record['Updated'].strftime raises on NaT
StrftimeFails(group, columns) ==
    \E i \in Indices(group) :
        RecordTextParts(group[i], columns) # <<>> /\ UpdatedDay(group[i]) = NaT

RECURSIVE AllTextParts(_, _)
AllTextParts(group_sorted, columns) ==
    IF group_sorted = <<>> THEN <<>>
    ELSE LET record_text_parts == RecordTextParts(Head(group_sorted), columns)
         IN  (IF record_text_parts = <<>> THEN <<>>
              ELSE <<RecordHeader(UpdatedDay(Head(group_sorted)))>> \o record_text_parts)
             \o AllTextParts(Tail(group_sorted), columns)

\* concatenate_project_text, lines 401-422, on the sorted group
ConcatenateProjectText(group_sorted, columns) ==
    IF AllTextParts(group_sorted, columns) = <<>>
    THEN <<"No text content available">>
    ELSE JoinLines(AllTextParts(group_sorted, columns))

\* the outcome of a consolidator
Consolidated(op, sheet, err, out) ==
    [op |-> op, sheet |-> sheet, error |-> err, out |-> out]

\* process_status_report, lines 358-459: one result row per group
ProcessStatusReport(sheet) ==
    /\ text = NoText
    /\ LET rows == sheet.rows
           keys == SortProjectGroups(ProjectGroups(rows))
       IN  IF ToDatetimeFails(rows)
           THEN text' = Consolidated("process_status_report", sheet, "to_datetime", <<>>)
           ELSE IF \E i \in Indices(keys) : IdxmaxFails(GroupOf(rows, keys[i]))
           THEN text' = Consolidated("process_status_report", sheet, "idxmax", <<>>)
           ELSE IF \E i \in Indices(keys) : StrftimeFails(GroupOf(rows, keys[i]), sheet.columns)
           THEN text' = Consolidated("process_status_report", sheet, "strftime", <<>>)
           ELSE \E sorted \in [Indices(keys) -> UNION {SortByUpdated(GroupOf(rows, keys[i])) :
                                                        i \in Indices(keys)}] :
                   /\ \A i \in Indices(keys) : sorted[i] \in SortByUpdated(GroupOf(rows, keys[i]))
                   /\ text' = Consolidated("process_status_report", sheet, "",
                          [i \in Indices(keys) |->
                              [project_name |-> keys[i][1], number |-> keys[i][2],
                               total_records |-> Len(sorted[i]),
                               project_text |-> ConcatenateProjectText(sorted[i],
                                                                       sheet.columns)]])
    /\ UNCHANGED <<reportVars, storeVars, latest, statusVars>>

\* the texts of one group in extract_project_data, lines 275-281
RECURSIVE AllTexts(_)
AllTexts(group) ==
    IF group = <<>> THEN <<>>
    ELSE LET record == Head(group)
             part(col) ==
                 IF col \in DOMAIN record
                 THEN LET t == IF record[col].kind = "nan" THEN <<>>
                               ELSE Strip(Str(record[col]))
                      IN  IF t # <<>> /\ t \notin {<<"-">>, <<"n/a">>, <<"nan">>, <<"None">>}
                          THEN << <<col, ": ">> \o t >>
                          ELSE <<>>
                 ELSE <<>>
         IN  Concat([i \in Indices(TextColumns) |-> part(TextColumns[i])])
             \o AllTexts(Tail(group))

\* extract_project_data, lines 241-296: one result row per group
ExtractProjectData(rows) ==
    LET keys == SortProjectGroups(ProjectGroups(rows))
    IN  [i \in Indices(keys) |->
            [project_id |-> keys[i][2], project_name |-> keys[i][1],
             project_text |-> IF AllTexts(GroupOf(rows, keys[i])) = <<>>
                              THEN <<"No content">>
                              ELSE JoinLines(AllTexts(GroupOf(rows, keys[i])))]]

\* main of project_excel_data_analyzer.py, lines 298-341: out holds the
\* ProjectRiskCrew objects constructed and run, one per result row
Main(sheet) ==
    /\ text = NoText
    /\ LET rows == sheet.rows
           keys == SortProjectGroups(ProjectGroups(rows))
       IN  IF ToDatetimeFails(rows)
           THEN text' = Consolidated("main", sheet, "to_datetime", <<>>)
           ELSE IF \E i \in Indices(keys) : IdxmaxFails(GroupOf(rows, keys[i]))
           THEN text' = Consolidated("main", sheet, "idxmax", <<>>)
           ELSE text' = Consolidated("main", sheet, "", ExtractProjectData(rows))
    /\ UNCHANGED <<reportVars, storeVars, latest, statusVars>>

\* the section names of create_project_text
SectionName ==
    ("Executive Summary" :> "EXECUTIVE SUMMARY")
    @@ ("Comments on Budget" :> "COMMENTS ON BUDGET")

\* str.lower() of the tokens that have capitals
LowerOf == ("NONE" :> "none") @@ ("None" :> "none")

Lower(s) == [i \in Indices(s) |-> IF s[i] \in DOMAIN LowerOf THEN LowerOf[s[i]] ELSE s[i]]

\* f"--- {section_name} ---\n{content}\n"
Section(section_name, content) == <<"--- ", section_name, " ---", "\n">> \o content \o <<"\n">>

\* ProjectStatusParser.create_project_text, lines 99-149, on a row after
\* _clean_data: the section of Updated comes last, and the LAST UPDATED line
\* is added for every value of Updated that is truthy, NaT among them
CreateProjectText(row) ==
    LET part(section_name, cell) ==
            LET content == ExtractTextContent(cell)
            IN  IF content # <<>> /\ Lower(content) \notin {<<"n/a">>, <<"na">>, <<"none">>, <<>>}
                THEN <<Section(section_name, content)>>
                ELSE <<>>
        day == UpdatedDay(row)
    IN  JoinLines(
            Concat([i \in Indices(TextColumns) |->
                       part(SectionName[TextColumns[i]], row[TextColumns[i]])])
            \o part("LAST UPDATED", IF day = NaT THEN NaN ELSE DateCell(day))
            \o << <<"LAST UPDATED: ">>
                  \o (IF day = NaT THEN <<"NaT">> ELSE Str(DateCell(day))) >>)

\* the loop of get_projects_for_analysis, lines 163-192
RECURSIVE ProjectsForAnalysis(_)
ProjectsForAnalysis(rows) ==
    IF rows = <<>> THEN <<>>
    ELSE LET row == Head(rows)
             project_id == IF row["Number"].kind = "nan" THEN <<>>
                           ELSE Strip(Str(row["Number"]))
             project_name == IF row["Project Name"].kind = "nan" THEN <<>>
                             ELSE Strip(Str(row["Project Name"]))
             project_text == CreateProjectText(row)
         IN  (IF project_id \in {<<>>, <<"nan">>} \/ project_name \in {<<>>, <<"nan">>}
              THEN <<>>
              ELSE IF Strip(project_text) = <<>> THEN <<>>
              ELSE <<[project_id |-> project_id, project_name |-> project_name,
                      project_text |-> project_text, row_data |-> row]>>)
             \o ProjectsForAnalysis(Tail(rows))

\* ProjectStatusParser.get_projects_for_analysis, lines 151-194, with
\* load_and_validate_data (lines 34-63): a sheet that lacks a required
\* column gives no project
GetProjectsForAnalysis(sheet) ==
    /\ text = NoText
    /\ text' = IF AllColumns \ sheet.columns # {}
               THEN Consolidated("get_projects_for_analysis", sheet,
                                 "Missing required columns", <<>>)
               ELSE Consolidated("get_projects_for_analysis", sheet, "",
                                 ProjectsForAnalysis(sheet.rows))
    /\ UNCHANGED <<reportVars, storeVars, latest, statusVars>>

\* a column of a row of project_data as _extract_text_content gets it
DbCell(value) == IF value = <<>> THEN NaN ELSE TextCell(value)

\* ProjectStatusParserDB.create_project_text, lines 93-129
CreateProjectTextDB(r) ==
    LET part(section_name, cell) ==
            LET content == ExtractTextContentDB(cell)
            IN  IF Lower(content) \notin {<<"n/a">>, <<"na">>, <<"none">>, <<>>}
                THEN <<Section(section_name, content)>>
                ELSE <<>>
    IN  JoinLines(part("EXECUTIVE SUMMARY", DbCell(r.executive_summary))
                  \o part("COMMENTS ON BUDGET", DbCell(r.comments_on_budget))
                  \o part("LAST UPDATED",
                          IF r.updated = NaT THEN NaN ELSE DateCell(r.updated)))

\* SELECT ... FROM project_data ORDER BY updated DESC: NULLs first, rows of
\* equal updated in any order
OrderByUpdatedDesc(table) ==
    {sq \in [1..Cardinality(table) -> table] :
        /\ \A i, j \in 1..Cardinality(table) : i # j => sq[i] # sq[j]
        /\ \A i, j \in 1..Cardinality(table) : i < j =>
              \/ sq[i].updated = NaT
              \/ sq[j].updated # NaT /\ sq[i].updated >= sq[j].updated}

\* the loop of get_projects_from_db, lines 57-71
RECURSIVE ProjectsFromRows(_)
ProjectsFromRows(rows) ==
    IF rows = <<>> THEN <<>>
    ELSE (IF Strip(CreateProjectTextDB(Head(rows))) = <<>> THEN <<>>
          ELSE <<[project_id |-> Head(rows).project_id,
                  project_name |-> Head(rows).project_name,
                  project_text |-> CreateProjectTextDB(Head(rows)),
                  row_data |-> Head(rows)]>>)
         \o ProjectsFromRows(Tail(rows))

\* the loop of main with an accumulator that starts afresh for every project
RECURSIVE CrewsReset(_, _, _)
CrewsReset(projects, project_text_accum, project_ids) ==
    IF projects = <<>> THEN <<>>
    ELSE <<[project_id |-> Head(projects).project_id,
            project_name |-> Head(projects).project_name,
            project_text |-> Head(projects).project_text \o <<"\n">>]>>
         \o CrewsReset(Tail(projects), project_text_accum, project_ids)

\* the loop of main, project_risk_analyzer.py lines 150-163: one
\* ProjectRiskCrew per project, its text the texts of the projects seen so
\* far, one per project_id
RECURSIVE Crews(_, _, _)
Crews(projects, project_text_accum, project_ids) ==
    IF projects = <<>> THEN <<>>
    ELSE LET pid == Head(projects).project_id
             accum == IF pid \notin project_ids
                      THEN project_text_accum \o Head(projects).project_text \o <<"\n">>
                      ELSE project_text_accum
         IN  <<[project_id |-> pid, project_name |-> Head(projects).project_name,
                project_text |-> accum]>>
             \o Crews(Tail(projects), accum, project_ids \cup {pid})

\* get_projects_from_db (lines 28-81) with main (lines 137-173) on the rows
\* of project_data the query fetched; a query that raises gives no project
GetProjectsFromDb(fetched) ==
    /\ text = NoText
    /\ \/ text' = [op |-> "get_projects_from_db", rows |-> fetched,
                   error |-> "connection", projects |-> <<>>, out |-> <<>>]
       \/ \E rows \in OrderByUpdatedDesc(fetched) :
             text' = [op |-> "get_projects_from_db", rows |-> fetched, error |-> "",
                      projects |-> ProjectsFromRows(rows),
                      out |-> Crews(ProjectsFromRows(rows), <<>>, {})]
    /\ UNCHANGED <<reportVars, storeVars, latest, statusVars>>

\* process_single_row of file_handler.py on one row: the values it writes
ProcessSingleRow(row) ==
    /\ text = NoText
    /\ text' = [op |-> "process_single_row", row |-> row, out |-> RowValues(row)]
    /\ UNCHANGED <<reportVars, storeVars, latest, statusVars>>

\* extract_row_data of file_watcher.py on one row: the row it posts, if any
ExtractRow(row) ==
    /\ text = NoText
    /\ text' = [op |-> "extract_row_data", row |-> row, out |-> ExtractRowData(row)]
    /\ UNCHANGED <<reportVars, storeVars, latest, statusVars>>

\* the project a Number stands for
NameOf == ("P1" :> "Alpha") @@ ("P2" :> "Beta")

ReportRow(number, updated, summary, budget) ==
    ("Number" :> TextCell(<<number>>)) @@ ("Project Name" :> TextCell(<<NameOf[number]>>))
    @@ ("Updated" :> updated) @@ ("Executive Summary" :> summary)
    @@ ("Comments on Budget" :> budget)

SummaryCells ==
    {NaN, TextCell(<<"-">>), TextCell(<<"NONE">>), TextCell(<<"<", "b", ">">>),
     TextCell(<<"<", "b", ">", "on", " ", " ", "track">>)}

BudgetCells == {NaN, TextCell(<<"over">>)}

UpdatedCells == {DateCell(20240101), DateCell(20240201), NaN}

ReportRows ==
    {ReportRow(number, updated, summary, budget) :
        number \in ProjectIds, updated \in UpdatedCells,
        summary \in SummaryCells, budget \in BudgetCells}

\* the status reports: no row, one row, two rows
Reports ==
    {Sheet(AllColumns, rows) :
        rows \in {<<>>} \cup {<<r>> : r \in ReportRows}
                 \cup {<<r, q>> : r \in ReportRows, q \in ReportRows}}

\* a later row of the project of ApiOk
ApiOkLater ==
    RowData(<<"P1">>, <<"Alpha">>, <<"2024-02-01">>, <<>>,
            <<"Comments on Budget", ":", " ", "over">>,
            <<"Comments on Budget", ":", " ", "over">>, {})

\* project_data after the watcher posted the rows of a report, or after a
\* client posted rows: a row without a date and without commentary, three
\* rows of two projects
Fetched ==
    {ApiAnswer({}, ExtractRowsFromExcel(sheet), 0, 1).after : sheet \in Reports}
    \cup {ApiAnswer({}, rows, 0, 1).after :
             rows \in {<<ApiBadDate>>, <<ApiBadDate, ApiOk>>, <<ApiOk, ApiP2, ApiOkLater>>}}

NextText ==
    \/ \E x \in Texts : NormalizeParser(x)
    \/ \E x \in Texts : NormalizeDB(x)
    \/ \E x \in Texts : NormalizeHtml(x)
    \/ \E row \in ReportRows : ProcessSingleRow(row)
    \/ \E row \in ReportRows : ExtractRow(row)
    \/ \E sheet \in Reports : ProcessStatusReport(sheet)
    \/ \E sheet \in Reports : Main(sheet)
    \/ \E sheet \in Reports : GetProjectsForAnalysis(sheet)
    \/ \E fetched \in Fetched : GetProjectsFromDb(fetched)

SpecText == InitStore /\ [][NextText]_vars

-----------------------------------------------------------------------------
(* Properties of the consolidators and normalizers *)

\* the null tokens of the spec
NullTokens == {<<>>, <<"n/a">>, <<"na">>, <<"none">>, <<"-">>, <<"nan">>}

\* a text that is empty or, whatever its case, a null token
NullText(s) == Lower(Strip(s)) \in NullTokens

\* a cell that is empty, NaN or a null token
NullCell(cell) == cell.kind = "nan" \/ (cell.kind = "str" /\ NullText(cell.str))

\* the text carries the label of the column
HasLabel(t, col) == \E i \in Indices(t) : t[i] \in {col, SectionName[col]}

\* the records of a project in a sheet
RecordsOf(sheet, number) ==
    SelectSeq(sheet.rows, LAMBDA r : HasKey(r) /\ Strip(Str(r["Number"])) = Strip(number))

\* C16: a commentary field whose cell is empty, NaN or a null token, in
\* whatever case, has no labelled line or section in the consolidated text:
\* not in combined_data of the file handler and of the watcher, not in the
\* project_text of the single-snapshot consolidator, and, when the field is
\* so in every record of the project, not in the project_text of the
\* multi-snapshot consolidator.
C16_SectionOmission ==
    \A c \in Indices(TextColumns) :
        LET col == TextColumns[c]
        IN  /\ (text.op = "process_single_row" /\ text.out.error = ""
                /\ NullCell(text.row[col]))
               => ~HasLabel(text.out.values.combined_data, col)
            /\ (text.op = "extract_row_data" /\ text.out # <<>>
                /\ NullCell(text.row[col]))
               => ~HasLabel(text.out[1].combined_data, col)
            /\ text.op = "get_projects_for_analysis"
               => \A i \in Indices(text.out) :
                      NullCell(text.out[i].row_data[col])
                      => ~HasLabel(text.out[i].project_text, col)
            /\ text.op = "process_status_report"
               => \A i \in Indices(text.out) :
                      (\A j \in Indices(RecordsOf(text.sheet, text.out[i].number)) :
                          NullCell(RecordsOf(text.sheet, text.out[i].number)[j][col]))
                      => ~HasLabel(text.out[i].project_text, col)

\* text.split("\n")
RECURSIVE SplitLines(_, _)
SplitLines(t, line) ==
    IF t = <<>> THEN <<line>>
    ELSE IF Head(t) = "\n" THEN <<line>> \o SplitLines(Tail(t), <<>>)
    ELSE SplitLines(Tail(t), Append(line, Head(t)))

IsHeader(line) == Len(line) = 3 /\ line[1] = "--- Record from "

IsSection(line) == Len(line) >= 3 /\ line[1] = "-- "

\* the header a line stands under, 0 when there is none above it
HeaderAbove(lines, i) ==
    LET H == {h \in 1..(i - 1) : IsHeader(lines[h])}
    IN  IF H = {} THEN 0 ELSE Max(H)

\* the header dates of a project text read top to bottom do not decrease
HeadersAscend(lines) ==
    \A i, j \in Indices(lines) :
        (i < j /\ IsHeader(lines[i]) /\ IsHeader(lines[j]))
        => DateTable[lines[i][2]] <= DateTable[lines[j][2]]

\* every section stands under the header of a snapshot of the project that
\* has this section, and its content is not empty
SectionsBelong(lines, group) ==
    \A i \in Indices(lines) :
        IsSection(lines[i]) =>
            /\ HeaderAbove(lines, i) # 0
            /\ Strip(SubSeq(lines[i], 4, Len(lines[i]))) # <<>>
            /\ \E r \in Indices(group) :
                  /\ UpdatedDay(group[r]) = DateTable[lines[HeaderAbove(lines, i)][2]]
                  /\ group[r][lines[i][2]].kind # "nan"
                  /\ Strip(SubSeq(lines[i], 4, Len(lines[i])))
                        = ExtractTextFromHtml(group[r][lines[i][2]])

\* C17: process_status_report emits the snapshots of each project in
\* ascending order of updated, each as a "--- Record from {date} ---" header
\* followed by only that snapshot's non-empty labelled sections: the header
\* dates do not decrease and every section under a header is a non-empty
\* section of a snapshot of that project and date.
C17_SnapshotOrder ==
    (text.op = "process_status_report" /\ text.error = "") =>
        \A k \in Indices(text.out) :
            /\ HeadersAscend(SplitLines(text.out[k].project_text, <<>>))
            /\ SectionsBelong(SplitLines(text.out[k].project_text, <<>>),
                              RecordsOf(text.sheet, text.out[k].number))

\* every commentary field of every record is empty or null-equivalent
NoContent(records) ==
    \A i \in Indices(records) : \A c \in Indices(TextColumns) :
        NullCell(records[i][TextColumns[c]])

\* C18: a project whose commentary fields are empty or null-equivalent in
\* all of its records is not passed to the rating engine, on the path of
\* extract_project_data and main, of get_projects_for_analysis and of
\* get_projects_from_db.
C18_NoContentExcluded ==
    /\ text.op \in {"main", "get_projects_for_analysis"} =>
          \A i \in Indices(text.out) :
              ~NoContent(RecordsOf(text.sheet, text.out[i].project_id))
    /\ text.op = "get_projects_from_db" =>
          \A i \in Indices(text.out) :
              \E r \in text.rows :
                  /\ r.project_id = text.out[i].project_id
                  /\ ~(NullText(r.executive_summary) /\ NullText(r.comments_on_budget))

Normalizers ==
    {"_extract_text_content", "_extract_text_content (DB)", "extract_text_from_html"}

\* C19: each cell normalizer gives, applied to what it gave, the same text
\* again: normalize(normalize(x)) = normalize(x).
C19_NormalizerIdempotent ==
    text.op \in Normalizers => text.twice = text.once

-----------------------------------------------------------------------------
(* generateReport run again on the same artifact path *)

\* The records of an artifact that is exported more than once: two
\* projects, a second name under the first project_id, and a rating outside
\* Red/Amber/Green.
RunRecords ==
    { RowRecord("P1", "Alpha", "2024-01-01", "Red", "j1"),
      RowRecord("P1", "Beta", "2024-01-01", "Green", "j2"),
      RowRecord("P2", "Beta", "2024-02-01", "Red", "j1"),
      RowRecord("P2", "Beta", "2024-01-01", "Purple", "j1") }

\* The process is killed inside the loop of lines 96-97, between two calls or
\* inside one: the server rolls back the transaction of a lost connection,
\* and the call never returns.
Interrupt ==
    /\ pc = "store"
    /\ pc' = "interrupted"
    /\ conn' = Closed
    /\ UNCHANGED <<data, error, results, all_rows, df, df_last_records, workbook,
                   projects_data, stored, report_run>>
    /\ UNCHANGED <<risk_assessments, next_id, clock, calls, faults>>

\* generateReport(jsonfile) is called again on the same path and the same
\* content (lines 9-12): its locals start afresh, the workbook file and the
\* table are what the run before left
Rerun ==
    /\ pc \in {"done", "raised", "interrupted"}
    /\ report_run.n < MaxRuns
    /\ report_run' = [n |-> report_run.n + 1, last |-> pc, calls |-> Len(calls)]
    /\ pc' = "extract"
    /\ error' = ""
    /\ results' = <<>>
    /\ all_rows' = <<>>
    /\ df' = <<>>
    /\ df_last_records' = <<>>
    /\ projects_data' = <<>>
    /\ stored' = <<>>
    /\ UNCHANGED <<data, workbook>>
    /\ UNCHANGED storeVars

InitRuns == Init /\ data \in SeqsUpTo(RunRecords, MaxRecords)

NextRuns ==
    \/ Next
    \/ Interrupt /\ UNCHANGED sideVars
    \/ Rerun /\ UNCHANGED sideVars

SpecRuns == InitRuns /\ [][NextRuns]_vars

\* C21: the first run against a path creates the workbook with the header and
\* its deduped rows; every later run against the same path leaves the header
\* as it is and appends its deduped rows after the rows already there.
C21_AppendAcrossRuns ==
    [][(pc = "export" /\ pc' = "store") =>
          /\ workbook'.header = Columns
          /\ workbook'.rows = workbook.rows \o df_last_records]_vars

\* lines 135-143 on a whole batch without a database fault: the statements
\* up to the first one a constraint rejects draw their ids, and the batch is
\* applied if none is rejected
RECURSIVE ApplyBatch(_, _, _, _)
ApplyBatch(table, rows, id, now) ==
    IF rows = <<>> THEN [table |-> table, id |-> id, ok |-> TRUE]
    ELSE IF ~StatementOk(Head(rows)) THEN [table |-> table, id |-> id, ok |-> FALSE]
    ELSE ApplyBatch(Upsert(table, Head(rows), id, now), Tail(rows), id + 1, now)

\* lines 96-97 run to their end without a database fault: one transaction
\* for each project, a rejected batch leaves the table as it was
RECURSIVE StoreAll(_, _, _, _)
StoreAll(groups, table, id, now) ==
    IF groups = <<>> THEN table
    ELSE LET b == ApplyBatch(table, Head(groups).rows, id, now + 1)
         IN  StoreAll(Tail(groups), IF b.ok THEN b.table ELSE table, b.id, now + 1)

\* what one uninterrupted run on this run's deduped rows leaves in an empty
\* table
Uninterrupted == StoreAll(GroupByProject(df_last_records), {}, 1, 0)

\* a stored row without its surrogate key and its timestamps
Verdict(r) ==
    [project_id |-> r.project_id, project_name |-> r.project_name,
     rating_date |-> r.rating_date, optic_name |-> r.optic_name,
     rating |-> r.rating, justification |-> r.justification]

\* a stored row without its timestamps
Keyed(r) == [id |-> r.id, verdict |-> Verdict(r)]

\* an interrupted run leaves the table as the last call that returned left it
CommittedAtInterrupt ==
    pc = "interrupted" =>
        /\ risk_assessments = IF calls = <<>> THEN {} ELSE calls[Len(calls)].after
        /\ \A c \in Indices(calls) :
              /\ ~calls[c].ret => calls[c].after = calls[c].before
              /\ calls[c].ret =>
                    \A i \in Indices(calls[c].batch) :
                        \E r \in calls[c].after :
                            StoreKey(r) = StoreKey(calls[c].batch[i])

\* C22 as stated: an interrupted run leaves every returned batch committed
\* and none half-applied, and a run of the whole export that ends without a
\* database fault, whatever was interrupted before it, leaves in
\* risk_assessments exactly the rows of one uninterrupted run, set apart
\* only their timestamps.
C22_RerunSameRows ==
    /\ CommittedAtInterrupt
    /\ (pc = "done" /\ faults = 0) =>
          {Keyed(r) : r \in risk_assessments} = {Keyed(r) : r \in Uninterrupted}

\* C22: an interrupted run leaves every returned batch committed and none
\* half-applied, and a run of the whole export that ends without a database
\* fault, whatever was interrupted before it, leaves in risk_assessments one
\* row for each row of one uninterrupted run, equal to it in project_id,
\* project_name, rating_date, optic_name, rating and justification, and no
\* other row.
C22_RerunSameVerdicts ==
    /\ CommittedAtInterrupt
    /\ (pc = "done" /\ faults = 0) =>
          /\ {Verdict(r) : r \in risk_assessments} = {Verdict(r) : r \in Uninterrupted}
          /\ Cardinality(risk_assessments) = Cardinality(Uninterrupted)
          /\ \A r, q \in risk_assessments : StoreKey(r) = StoreKey(q) => r = q

\* C22 witness: a run was interrupted after its first batch was committed,
\* and the run after it has stored two projects.
C22_Witness ==
    /\ pc = "done"
    /\ faults = 0
    /\ report_run.n = 2
    /\ report_run.last = "interrupted"
    /\ report_run.calls = 1
    /\ calls[1].ret
    /\ Len(calls) = 3
    /\ Cardinality(risk_assessments) = 2

-----------------------------------------------------------------------------
(* ExcelFileHandler: the worker threads of the file watcher *)

\* threads started by the watcher in one run
MaxWorkers == 2

\* the paths of the file events: two workbooks and a file that is none
EventPaths == {<<"a", ".xlsx">>, <<"b", ".xls">>, <<"notes", ".txt">>}

\* is_excel_file, lines 32-33
IsExcelFile(file_path) == Lower(file_path)[Len(file_path)] \in {".xlsx", ".xls"}

WatchedPaths == {p \in EventPaths : IsExcelFile(p)}

\* The contents a watched file can have: a valid row, and a sheet without
\* the Number column.
WatchedSheets ==
    { Sheet(AllColumns, <<RowOk>>),
      Sheet(AllColumns \ {"Number"}, <<Without(RowOk, {"Number"})>>) }

\* calculate_file_hash, lines 61-64: the MD5 digest of the bytes of the file,
\* one digest for each content
CalculateFileHash(content) == <<"md5", content>>

\* A thread that has not been started.  result is what lines 39-45 came to
\* ("raised", "skipped", "accepted"), posts the outcomes of its POSTs.
Idle == [pc |-> "idle", file_path |-> <<>>, rows_data |-> <<>>, result |-> "",
         posts |-> <<>>]

\* lines 42-45: the hash recorded for a path, if any
Recorded(file_path) == {e \in file_hashes : e[1] = file_path}

\* the worker is inside the with block of lines 37-59, which a return, its
\* end and the handled exception leave, releasing the lock
InSection(w) ==
    w \in DOMAIN workers /\ workers[w].pc \in {"hash", "extract", "send", "except"}

\* on_created and on_modified, lines 24-30: a thread of process_file_sync is
\* started for a workbook, none for another file; event_type is only logged
OnEvent(event_type) ==
    /\ Len(workers) < MaxWorkers
    /\ event_type \in {"created", "modified"}
    /\ \E src_path \in EventPaths :
         /\ IsExcelFile(src_path)
         /\ workers' = Append(workers, [Idle EXCEPT !.pc = "start",
                                                    !.file_path = src_path])
    /\ UNCHANGED <<processing_lock, files, accepted, file_hashes>>

OnCreated == OnEvent("created")

OnModified == OnEvent("modified")

\* the workbook that is edited while it is watched
EditedPath == <<"a", ".xlsx">>

\* the file is saved with another content
WriteFile ==
    /\ \E c \in WatchedSheets :
         /\ files[EditedPath] # c
         /\ files' = [files EXCEPT ![EditedPath] = c]
    /\ UNCHANGED <<processing_lock, workers, accepted, file_hashes>>

\* line 37 without the lock: the with block is entered at once
EnterUnlocked(w) ==
    /\ workers[w].pc = "start"
    /\ processing_lock' = w
    /\ workers' = [workers EXCEPT ![w].pc = "hash"]
    /\ UNCHANGED <<files, accepted, file_hashes>>

\* line 37, with self.processing_lock: the lock is taken when it is free
Enter(w) ==
    /\ workers[w].pc = "start"
    /\ processing_lock = 0
    /\ processing_lock' = w
    /\ workers' = [workers EXCEPT ![w].pc = "hash"]
    /\ UNCHANGED <<files, accepted, file_hashes>>

\* lines 39-45 without line 45: the hash is compared and never recorded
CheckHashUnrecorded(w) ==
    /\ workers[w].pc = "hash"
    /\ LET file_path == workers[w].file_path
           file_hash == CalculateFileHash(files[file_path])
       IN  IF <<file_path, file_hash>> \in file_hashes
           THEN /\ workers' = [workers EXCEPT ![w].pc = "done",
                                              ![w].result = "skipped"]
                /\ processing_lock' = 0
                /\ UNCHANGED accepted
           ELSE /\ accepted' = {e \in accepted : e[1] # file_path}
                                 \cup {<<file_path, files[file_path]>>}
                /\ workers' = [workers EXCEPT ![w].pc = "extract",
                                              ![w].result = "accepted"]
                /\ UNCHANGED processing_lock
    /\ UNCHANGED <<files, file_hashes>>

\* lines 39-45: the file is read and hashed (open and read can raise); a
\* path whose recorded hash is this one is skipped, and the return of line 43
\* leaves the with block; else the hash is recorded
CheckHash(w) ==
    /\ workers[w].pc = "hash"
    /\ \E raised \in BOOLEAN :
         LET file_path == workers[w].file_path
             file_hash == CalculateFileHash(files[file_path])
         IN  IF raised
             THEN /\ workers' = [workers EXCEPT ![w].pc = "except",
                                                ![w].result = "raised"]
                  /\ UNCHANGED <<processing_lock, accepted, file_hashes>>
             ELSE IF <<file_path, file_hash>> \in file_hashes
             THEN /\ workers' = [workers EXCEPT ![w].pc = "done",
                                                ![w].result = "skipped"]
                  /\ processing_lock' = 0
                  /\ UNCHANGED <<accepted, file_hashes>>
             ELSE /\ file_hashes' = (file_hashes \ Recorded(file_path))
                                      \cup {<<file_path, file_hash>>}
                  /\ accepted' = {e \in accepted : e[1] # file_path}
                                   \cup {<<file_path, files[file_path]>>}
                  /\ workers' = [workers EXCEPT ![w].pc = "extract",
                                                ![w].result = "accepted"]
                  /\ UNCHANGED processing_lock
    /\ UNCHANGED files

\* lines 50-56: the rows of the file as it is now; without rows nothing is
\* sent and the with block ends
ExtractRows(w) ==
    /\ workers[w].pc = "extract"
    /\ LET rows_data == ExtractRowsFromExcel(files[workers[w].file_path])
       IN  /\ workers' = [workers EXCEPT ![w].rows_data = rows_data,
                                         ![w].pc = IF rows_data # <<>> THEN "send" ELSE "done"]
           /\ processing_lock' = IF rows_data # <<>> THEN processing_lock ELSE 0
    /\ UNCHANGED <<files, accepted, file_hashes>>

\* what a POST to /api/process-rows can come to: status 200, another status,
\* a timeout or another exception of requests.post
PostOutcomes == {"200", "500", "timeout"}

\* send_to_api_service with a second attempt after a failed one
SendWithRetry(w) ==
    /\ workers[w].pc = "send"
    /\ \E outcome \in PostOutcomes :
         /\ workers' = [workers EXCEPT ![w].posts = Append(@, outcome),
                                       ![w].pc = IF outcome = "200" \/ Len(workers[w].posts) = 1
                                                 THEN "done" ELSE "send"]
         /\ processing_lock' = IF outcome = "200" \/ Len(workers[w].posts) = 1
                                THEN 0 ELSE processing_lock
    /\ UNCHANGED <<files, accepted, file_hashes>>

\* send_to_api_service, lines 154-176: one requests.post; its answer or its
\* exception is logged, the call returns and the with block ends
SendToApiService(w) ==
    /\ workers[w].pc = "send"
    /\ \E outcome \in PostOutcomes :
         workers' = [workers EXCEPT ![w].posts = Append(@, outcome),
                                    ![w].pc = "done"]
    /\ processing_lock' = 0
    /\ UNCHANGED <<files, accepted, file_hashes>>

\* lines 58-59: the exception is logged and the with block ends
LogError(w) ==
    /\ workers[w].pc = "except"
    /\ workers' = [workers EXCEPT ![w].pc = "done"]
    /\ processing_lock' = 0
    /\ UNCHANGED <<files, accepted, file_hashes>>

\* process_file_sync, lines 35-59, one step of a started thread
ProcessFileSyncStep ==
    \E w \in DOMAIN workers :
        \/ Enter(w)
        \/ CheckHash(w)
        \/ ExtractRows(w)
        \/ SendToApiService(w)
        \/ LogError(w)

otherVars == <<reportVars, storeVars, latest, project_data, runs, text>>

InitWatcher ==
    /\ data = <<>>
    /\ pc = "api"
    /\ error = ""
    /\ results = <<>>
    /\ all_rows = <<>>
    /\ df = <<>>
    /\ df_last_records = <<>>
    /\ workbook = NoWorkbook
    /\ projects_data = <<>>
    /\ stored = <<>>
    /\ report_run = NoRun
    /\ risk_assessments = {}
    /\ next_id = 1
    /\ clock = 0
    /\ conn = Closed
    /\ calls = <<>>
    /\ faults = 0
    /\ latest = NoRead
    /\ project_data = {}
    /\ file_hashes = {}
    /\ runs = <<>>
    /\ text = NoText
    /\ processing_lock = 0
    /\ workers = NoWorkers
    /\ files = [p \in WatchedPaths |-> Sheet(AllColumns, <<RowOk>>)]
    /\ accepted = {}

NextWatcher ==
    \/ OnCreated /\ UNCHANGED otherVars
    \/ OnModified /\ UNCHANGED otherVars
    \/ WriteFile /\ UNCHANGED otherVars
    \/ ProcessFileSyncStep /\ UNCHANGED otherVars

SpecWatcher == InitWatcher /\ [][NextWatcher]_vars

\* every started thread is scheduled, and every call it makes returns or
\* raises (requests.post has timeout=30)
SpecWatcherFair == SpecWatcher /\ WF_vars(ProcessFileSyncStep /\ UNCHANGED otherVars)

-----------------------------------------------------------------------------
(* Properties of the file watcher *)

\* at most one worker is inside the with block, and it holds the lock
OneInSection ==
    /\ \A w, v \in DOMAIN workers : (InSection(w) /\ InSection(v)) => w = v
    /\ \A w \in DOMAIN workers : InSection(w) <=> processing_lock = w

\* C23: at most one worker thread at a time is inside the critical section
\* of process_file_sync (hash check, hash update, row extraction, POST),
\* whatever the files of the workers are, and every worker that enters the
\* section leaves it, also after an exception: the worker inside the section
\* is the holder of the lock, and a held lock is released.
C23_MutualExclusion ==
    /\ []OneInSection
    /\ (processing_lock # 0) ~> (processing_lock = 0)

\* C23 witness: a worker has left the section after an exception, and a
\* worker for another file is inside it while the lock is held.
C23_Witness ==
    \E w, v \in DOMAIN workers :
        /\ workers[w].pc = "done"
        /\ workers[w].result = "raised"
        /\ workers[v].pc = "send"
        /\ workers[v].file_path # workers[w].file_path
        /\ processing_lock = v

\* the hash of the file of worker w is the one recorded for its path
HashRecorded(w) ==
    <<workers[w].file_path, CalculateFileHash(files[workers[w].file_path])>> \in file_hashes

\* C24: a worker makes one POST attempt for its event and none after it,
\* whatever the outcome (200, another status, a timeout or another
\* exception); the hash is recorded before the send, so a worker that finds
\* the recorded hash equal to the file's makes no POST, and a worker goes on
\* to the send only when the hash of the file differs from the recorded one.
C24_NoRetry ==
    [][\A w \in DOMAIN workers :
          /\ Len(workers'[w].posts) <= 1
          /\ (workers[w].pc = "send" /\ workers'[w] # workers[w]) =>
                /\ workers'[w].pc = "done"
                /\ Len(workers'[w].posts) = 1
          /\ (workers[w].pc = "hash" /\ workers'[w].pc = "extract") =>
                /\ ~HashRecorded(w)
                /\ HashRecorded(w)'
          /\ (workers[w].pc = "hash" /\ HashRecorded(w) /\ workers'[w] # workers[w]) =>
                /\ workers'[w].result \in {"skipped", "raised"}
                /\ workers'[w].pc \in {"done", "except"}
          /\ workers'[w].result \in {"skipped", "raised"} => workers'[w].posts = <<>>]_vars

\* C24 witness: the POST of a worker has timed out and the worker is done; a
\* later worker for the same path, the content unchanged, has skipped the
\* file without a POST.
C24_Witness ==
    \E w, v \in DOMAIN workers :
        /\ w < v
        /\ workers[w].pc = "done" /\ workers[w].posts = <<"timeout">>
        /\ workers[v].pc = "done" /\ workers[v].result = "skipped"
        /\ workers[v].file_path = workers[w].file_path
        /\ workers[v].posts = <<>>

-----------------------------------------------------------------------------
(* Properties of the export into the store *)

\* the batch of a call holds a rating outside Red, Amber and Green
OutsideRatings(batch) == \E i \in Indices(batch) : batch[i].rating \notin Ratings

\* C25: every row of risk_assessments has its rating in {Red, Amber,
\* Green}.  The export hands a verdict with any other rating to the store as
\* it is, the store rejects the batch that holds it, and no row of that
\* batch is persisted.
C25_RatingDomain ==
    /\ \A r \in risk_assessments : r.rating \in Ratings
    /\ \A c \in Indices(calls) :
          OutsideRatings(calls[c].batch) =>
              /\ ~calls[c].ret
              /\ calls[c].after = calls[c].before
    /\ pc = "done" =>
          \A j \in Indices(df_last_records) :
              df_last_records[j].rating \notin Ratings =>
                  \E c \in Indices(calls) :
                      \E i \in Indices(calls[c].batch) :
                          calls[c].batch[i] = df_last_records[j]

\* C25 witness: a run is done in which the batch of one project was stored
\* and the batch of another, with a rating that is no Red, Amber or Green,
\* was rejected.
C25_Witness ==
    /\ pc = "done"
    /\ Len(calls) = 2
    /\ \E c, d \in Indices(calls) :
          /\ calls[c].ret
          /\ ~calls[d].ret
          /\ \E i \in Indices(calls[d].batch) :
                ~IsNull(calls[d].batch[i].rating) /\ calls[d].batch[i].rating \notin Ratings
    /\ risk_assessments # {}

-----------------------------------------------------------------------------
(* Properties of the DB-backed run *)

\* main of project_risk_analyzer.py alone, on the tables it can find
NextAnalyzer == \E fetched \in Fetched : GetProjectsFromDb(fetched)

SpecAnalyzer == InitStore /\ [][NextAnalyzer]_vars

\* the project_data rows for which get_projects_from_db returns a project
WithText(rows) == {r \in rows : Strip(CreateProjectTextDB(r)) # <<>>}

\* the projects are rows in an order of ORDER BY updated DESC
UpdatedDescending(projects) ==
    \A i, j \in Indices(projects) :
        i < j => \/ projects[i].row_data.updated = NaT
                 \/ /\ projects[j].row_data.updated # NaT
                    /\ projects[i].row_data.updated >= projects[j].row_data.updated

\* project k is the first of its project_id
FirstOfProject(projects, k) ==
    \A j \in 1..(k - 1) : projects[j].project_id # projects[k].project_id

\* the texts, each with its line end, of the first project of every
\* project_id among projects 1..k, in their order
TextsSeen(projects, k) ==
    Concat([i \in 1..k |-> IF FirstOfProject(projects, i)
                           THEN projects[i].project_text \o <<"\n">>
                           ELSE <<>>])

\* the crews are those of the claim for the projects that were iterated
AccumulatedTexts ==
    /\ Len(text.out) = Len(text.projects)
    /\ UpdatedDescending(text.projects)
    /\ \A k \in Indices(text.out) :
          /\ text.out[k].project_id = text.projects[k].project_id
          /\ text.out[k].project_text = TextsSeen(text.projects, k)

-----------------------------------------------------------------------------
(* Properties of the store loop across its batches *)

\* the stored row r is the deduped row d
Persists(r, d) ==
    /\ r.project_id = d.project_id
    /\ r.project_name = d.project_name
    /\ r.rating_date = d.rating_date
    /\ r.optic_name = d.optic_name
    /\ r.rating = d.rating
    /\ r.justification = d.justification

\* the run is done and each of its batches was stored
EveryBatchStored ==
    /\ pc = "done"
    /\ Len(calls) = Len(stored)
    /\ \A c \in Indices(calls) : calls[c].ret

\* C27: after a generateReport run in which every per-project batch
\* succeeds, every deduped row has a row in risk_assessments with its
\* project_id, project_name, rating_date, optic_name, rating and
\* justification.
C27_DedupePersisted ==
    EveryBatchStored =>
        \A j \in Indices(df_last_records) :
            \E r \in risk_assessments : Persists(r, df_last_records[j])

\* every row of the batch passes the constraints of the table
ValidBatch(batch) == \A i \in Indices(batch) : StatementOk(batch[i])

\* C28: in one generateReport run a batch upsert that fails is rolled back
\* and leaves the table as the batches before it left it; the rows of every
\* batch that returned success are in the table whatever happens to the
\* batches after it; a failed batch does not end the run, which goes on to
\* the next project (only a connection that cannot be opened ends it), so a
\* run that reaches its end has attempted every project, and without a
\* database fault it has committed exactly the valid batches.
C28_BatchesIndependent ==
    /\ \A c \in Indices(calls) : ~calls[c].ret => calls[c].after = calls[c].before
    /\ \A c \in Indices(calls) :
          calls[c].ret =>
              \A i \in Indices(calls[c].batch) :
                  \E r \in risk_assessments :
                      /\ StoreKey(r) = StoreKey(calls[c].batch[i])
                      /\ r.rating = LastWithKey(calls[c].batch, calls[c].batch[i]).rating
    /\ (pc = "raised" /\ error = "OperationalError") => faults > 0
    /\ pc = "done" =>
          /\ Len(calls) = Len(stored)
          /\ Len(stored) = Len(GroupByProject(df_last_records))
    /\ (pc = "done" /\ faults = 0) =>
          \A c \in Indices(calls) : calls[c].ret <=> ValidBatch(calls[c].batch)

\* C28 witness: the batch of the first project was rejected and rolled back,
\* the batch of the second was committed after it, and the run is done.
C28_Witness ==
    /\ pc = "done"
    /\ Len(calls) = 2
    /\ ~calls[1].ret
    /\ calls[2].ret
    /\ risk_assessments = calls[2].after
    /\ \A r \in risk_assessments : r.project_id # calls[1].batch[1].project_id

-----------------------------------------------------------------------------
(* The frame of an upsert *)

\* the batch of call c holds a row of the key of r
Hits(c, r) == \E i \in Indices(calls[c].batch) : StoreKey(calls[c].batch[i]) = StoreKey(r)

\* q is r but for rating, justification and updated_at
SameButVerdict(q, r) ==
    q = [r EXCEPT !.rating = q.rating, !.justification = q.justification,
                  !.updated_at = q.updated_at]

\* C29: an upsert that hits an existing (project_id, rating_date, optic_name)
\* changes only rating, justification and updated_at of that row: its
\* project_name, also when the incoming row has another one, its id and its
\* created_at stay, and every row of another key stays as it is.
C29_UpsertFrame ==
    \A c \in Indices(calls) :
        calls[c].ret =>
            \A r \in calls[c].before :
                IF Hits(c, r)
                THEN \E q \in calls[c].after :
                        /\ q.id = r.id
                        /\ SameButVerdict(q, r)
                        /\ \A p \in calls[c].after : StoreKey(p) = StoreKey(r) => p = q
                ELSE r \in calls[c].after

\* C29 witness: a successful upsert has hit a row with a row of another
\* project_name, rating and justification, while a row of another key was
\* in the table.
C29_Witness ==
    \E c \in Indices(calls) :
        /\ calls[c].ret
        /\ \E r, o \in calls[c].before :
              /\ ~Hits(c, o)
              /\ \E i \in Indices(calls[c].batch) :
                    /\ StoreKey(calls[c].batch[i]) = StoreKey(r)
                    /\ calls[c].batch[i].project_name # r.project_name
                    /\ calls[c].batch[i].rating # r.rating
                    /\ calls[c].batch[i].justification # r.justification

-----------------------------------------------------------------------------
(* The hash table of the file watcher *)

\* the workers of a path whose check of lines 39-45 came to result
WorkersWith(file_path, result) ==
    {w \in DOMAIN workers : workers[w].file_path = file_path /\ workers[w].result = result}

\* the workers of a path that have posted rows
Senders(file_path) ==
    {w \in DOMAIN workers : workers[w].file_path = file_path /\ workers[w].posts # <<>>}

\* C30: for the events of a path whose content does not change, in any
\* interleaving, the rows are extracted and sent by at most one worker, and
\* every other worker that reads the file finds the recorded hash equal and
\* returns without rows and without a POST; for every path file_hashes holds
\* the hash of the content last accepted for processing, and nothing else.
C30_SentOnce ==
    /\ \A p \in WatchedPaths \ {EditedPath} :
          /\ Cardinality(WorkersWith(p, "accepted")) <= 1
          /\ Cardinality(Senders(p)) <= 1
          /\ Senders(p) \subseteq WorkersWith(p, "accepted")
          /\ \A w \in WorkersWith(p, "skipped") :
                /\ WorkersWith(p, "accepted") # {}
                /\ workers[w].rows_data = <<>>
                /\ workers[w].posts = <<>>
    /\ file_hashes = {<<e[1], CalculateFileHash(e[2])>> : e \in accepted}
    /\ \A e, f \in file_hashes : e[1] = f[1] => e = f

\* C30 witness: two workers for the path whose content does not change are
\* done; one has posted its rows, the other has skipped the file, and the
\* recorded hash is that of the file.
C30_Witness ==
    \E p \in WatchedPaths \ {EditedPath} :
        /\ Cardinality(WorkersWith(p, "skipped")) >= 1
        /\ \E w \in Senders(p) : workers[w].posts = <<"200">>
        /\ \A w \in DOMAIN workers : workers[w].file_path = p /\ workers[w].pc = "done"
        /\ <<p, CalculateFileHash(files[p])>> \in file_hashes

====
